---------------------------- MODULE Spec2Model ----------------------------
(***************************************************************************)
(* FleetLink backend: the availability and booking-conflict engine         *)
(* (BookingService, VehicleService, RideCalculationService and the overlap *)
(* query of the Booking model) as a state machine over the two stores.     *)
(*                                                                         *)
(* Time is counted in half hours: the smallest ride duration of the code   *)
(* is 0.5 h, and every duration is a multiple of it.  A timestamp t stands *)
(* for t * 1,800,000 ms.                                                   *)
(***************************************************************************)
EXTENDS Integers, Sequences, FiniteSets, Bags, TLC

VARIABLES vehicles,   \* Vehicle collection: id -> document
          bookings,   \* Booking collection: id -> document
          nextId,     \* the id the next saved Booking gets (ids are never reused)
          now,        \* the wall clock (Date.now()), in half hours
          calls,      \* service calls suspended at an await: a bag of frames
          response,   \* what the call that just returned reported to its caller
          calc        \* a call of RideCalculationService: its arguments and result

vars == <<vehicles, bookings, nextId, now, calls, response, calc>>

-----------------------------------------------------------------------------
(* Bounds of the model *)

NumVehicles == 2      \* vehicles registered in the fleet
MaxBookings == 2      \* Booking documents saved in one run
MaxStart    == 2      \* requested start times range up to MaxStart
MaxNow      == 2      \* where the clock advances, it runs from 0 to MaxNow
MaxInFlight == 2      \* service calls suspended at the same time
MaxCreated  == 2      \* vehicles registered in one run, beyond the fleet
MaxStored   == 2      \* documents of a collection that a query is run against

-----------------------------------------------------------------------------
(* Strings that the code inspects character by character are sequences of  *)
(* one-character strings.                                                   *)

Digits == {"0", "1", "2", "3", "4", "5", "6", "7", "8", "9"}

DigitValue(c) ==
    CASE c = "0" -> 0 [] c = "1" -> 1 [] c = "2" -> 2 [] c = "3" -> 3
      [] c = "4" -> 4 [] c = "5" -> 5 [] c = "6" -> 6 [] c = "7" -> 7
      [] c = "8" -> 8 [] c = "9" -> 9

P110001 == <<"1", "1", "0", "0", "0", "1">>
P110002 == <<"1", "1", "0", "0", "0", "2">>
P11001  == <<"1", "1", "0", "0", "1">>
NoString == << >>      \* undefined / '' : falsy in JavaScript

Abs(x) == IF x < 0 THEN -x ELSE x
Max(a, b) == IF a >= b THEN a ELSE b

\* String.prototype.trim, as mongoose applies it to `trim: true` paths.
RECURSIVE trim(_)
trim(s) ==
    IF s = << >> THEN s
    ELSE IF Head(s) = " " THEN trim(Tail(s))
    ELSE IF s[Len(s)] = " " THEN trim(SubSeq(s, 1, Len(s) - 1))
    ELSE s

-----------------------------------------------------------------------------
(* RideCalculationService *)

\* /^\d{6}$/.test(pincode)
isValidPincode(pincode) ==
    /\ Len(pincode) = 6
    /\ \A i \in 1..Len(pincode) : pincode[i] \in Digits

\* parseInt of a string of decimal digits
RECURSIVE parseInt(_)
parseInt(s) ==
    IF s = << >> THEN 0
    ELSE 10 * parseInt(SubSeq(s, 1, Len(s) - 1)) + DigitValue(s[Len(s)])

HoursModulus == 24

\* Math.max(Math.abs(toPin - fromPin) % 24, 0.5) hours, returned in half hours.
calculateEstimatedDuration(fromPincode, toPincode) ==
    LET fromPin  == parseInt(fromPincode)
        toPin    == parseInt(toPincode)
        duration == Abs(toPin - fromPin) % HoursModulus
    IN  Max(2 * duration, 1)

\* new Date(start.getTime() + durationHours * 60 * 60 * 1000)
calculateEndTime(start, durationHalfHours) == start + durationHalfHours

-----------------------------------------------------------------------------
(* Outcomes: "ok", or the message of the error the operation throws (the    *)
(* cause, without the "Error ...: " prefix of the catch block).             *)

OK == "ok"
MissingFields      == "All booking fields are required"
VehicleNotFound    == "Vehicle not found"
VehicleNotActive   == "Vehicle is not available for booking"
InvalidPincode     == "Invalid pincode format. Pincodes must be 6 digits."
InvalidTimeFormat  == "Invalid start time format"
PastStartTime      == "Start time must be in the future"
SlotUnavailable    == "Vehicle is no longer available for the requested time slot"
CustomerRequired   == "Booking validation failed: customerId: Customer ID is required"
StartNotFuture     == "Booking validation failed: startTime: Start time must be in the future"
BookingNotFound    == "Booking not found"
AlreadyCompleted   == "Cannot cancel completed booking"
AlreadyCancelled   == "Booking is already cancelled"
TooCloseToStart    == "Cannot cancel booking less than 2 hours before start time"
NotCancelled       == "Only cancelled bookings can be deleted"
HasActiveBookings  == "Cannot delete vehicle with active bookings"
InvalidStatus      == "Validation failed: status is not a valid enum value"
MissingCriteria    == "All search criteria are required"

-----------------------------------------------------------------------------
(* The models (schemas) *)

VehicleStatuses == {"active", "maintenance", "retired"}
BookingStatuses == {"confirmed", "in-progress", "completed", "cancelled"}
ActiveStatuses  == {"confirmed", "in-progress"}


\* The fleet: vehicle i carries i tonnes (A = 1000 kg, B = 2000 kg, ...).
CapacityOf(i) == 1000 * i

\* A date argument: an ISO string of the instant t, a string that does not
\* parse, or nothing at all.
IsoDate(t)  == [kind |-> "iso", t |-> t]
GarbageDate == [kind |-> "garbage", t |-> 0]
NoDate      == [kind |-> "none", t |-> 0]

NullDate    == [kind |-> "null", t |-> 0]

\* new Date(x): isNaN(d.getTime()) is ~valid.  new Date(null) is the epoch,
\* new Date(undefined) is an invalid date.
ParseDate(x) ==
    [valid |-> x.kind \in {"iso", "null"}, t |-> IF x.kind = "iso" THEN x.t ELSE 0]

\* Variant: the query does not look at the status.
findOverlappingAnyStatus(bks, vehicleId, startTime, endTime, excludeBookingId) ==
    { id \in DOMAIN bks :
        /\ bks[id].vehicleId = vehicleId
        /\ bks[id].startTime < endTime
        /\ bks[id].endTime > startTime
        /\ (excludeBookingId # 0 => id # excludeBookingId) }

\* Variant: the query matches confirmed bookings only.
findOverlappingConfirmed(bks, vehicleId, startTime, endTime, excludeBookingId) ==
    { id \in DOMAIN bks :
        /\ bks[id].vehicleId = vehicleId
        /\ bks[id].status = "confirmed"
        /\ bks[id].startTime < endTime
        /\ bks[id].endTime > startTime
        /\ (excludeBookingId # 0 => id # excludeBookingId) }

\* Variant: the query compares with $lte and $gte (closed intervals).
findOverlappingClosed(bks, vehicleId, startTime, endTime, excludeBookingId) ==
    { id \in DOMAIN bks :
        /\ bks[id].vehicleId = vehicleId
        /\ bks[id].status \in ActiveStatuses
        /\ bks[id].startTime <= endTime
        /\ bks[id].endTime >= startTime
        /\ (excludeBookingId # 0 => id # excludeBookingId) }

\* Variant: the query without _id: {$ne: excludeBookingId}.
findOverlappingKeepExcluded(bks, vehicleId, startTime, endTime, excludeBookingId) ==
    { id \in DOMAIN bks :
        /\ bks[id].vehicleId = vehicleId
        /\ bks[id].status \in ActiveStatuses
        /\ bks[id].startTime < endTime
        /\ bks[id].endTime > startTime }

\* bookingSchema.statics.findOverlappingBookings: the ids of the documents the
\* query matches.  excludeBookingId = 0 stands for null.
findOverlappingBookings(bks, vehicleId, startTime, endTime, excludeBookingId) ==
    { id \in DOMAIN bks :
        /\ bks[id].vehicleId = vehicleId
        /\ bks[id].status \in ActiveStatuses
        /\ bks[id].startTime < endTime
        /\ bks[id].endTime > startTime
        /\ (excludeBookingId # 0 => id # excludeBookingId) }

-----------------------------------------------------------------------------
(* BookingService.createBooking, stage by stage (one stage per await)      *)

\* Variant: the status of the vehicle is not looked at.
CreateChecksAnyStatus(req, vs, t) ==
    LET bookingStartTime == ParseDate(req.startTime) IN
    IF \/ req.vehicleId = 0 \/ req.fromPincode = NoString \/ req.toPincode = NoString
       \/ req.startTime.kind \in {"none", "null"} \/ req.customerId = NoString
    THEN MissingFields
    ELSE IF req.vehicleId \notin DOMAIN vs THEN VehicleNotFound
    ELSE IF ~isValidPincode(req.fromPincode) \/ ~isValidPincode(req.toPincode)
    THEN InvalidPincode
    ELSE IF ~bookingStartTime.valid THEN InvalidTimeFormat
    ELSE IF bookingStartTime.t <= t THEN PastStartTime
    ELSE OK

\* Variant: the pincodes are validated before the vehicle is looked up.
CreateChecksPincodeFirst(req, vs, t) ==
    LET bookingStartTime == ParseDate(req.startTime) IN
    IF \/ req.vehicleId = 0 \/ req.fromPincode = NoString \/ req.toPincode = NoString
       \/ req.startTime.kind \in {"none", "null"} \/ req.customerId = NoString
    THEN MissingFields
    ELSE IF ~isValidPincode(req.fromPincode) \/ ~isValidPincode(req.toPincode)
    THEN InvalidPincode
    ELSE IF req.vehicleId \notin DOMAIN vs THEN VehicleNotFound
    ELSE IF vs[req.vehicleId].status # "active" THEN VehicleNotActive
    ELSE IF ~bookingStartTime.valid THEN InvalidTimeFormat
    ELSE IF bookingStartTime.t <= t THEN PastStartTime
    ELSE OK

\* lines 14-45: the checks up to the overlap query, against the vehicle that
\* Vehicle.findById returned and the clock.
CreateChecks(req, vs, t) ==
    LET bookingStartTime == ParseDate(req.startTime) IN
    IF \/ req.vehicleId = 0 \/ req.fromPincode = NoString \/ req.toPincode = NoString
       \/ req.startTime.kind \in {"none", "null"} \/ req.customerId = NoString
    THEN MissingFields
    ELSE IF req.vehicleId \notin DOMAIN vs THEN VehicleNotFound
    ELSE IF vs[req.vehicleId].status # "active" THEN VehicleNotActive
    ELSE IF ~isValidPincode(req.fromPincode) \/ ~isValidPincode(req.toPincode)
    THEN InvalidPincode
    ELSE IF ~bookingStartTime.valid THEN InvalidTimeFormat
    ELSE IF bookingStartTime.t <= t THEN PastStartTime
    ELSE OK

\* lines 47-56
CreateDuration(req) == calculateEstimatedDuration(req.fromPincode, req.toPincode)
CreateEndTime(req) == calculateEndTime(ParseDate(req.startTime).t, CreateDuration(req))

\* lines 58-67
CreateOverlapping(req, bks) ==
    findOverlappingBookings(bks, req.vehicleId, ParseDate(req.startTime).t,
                            CreateEndTime(req), 0)

\* Variant: a schema without trim on customerId.
NewBookingUntrimmed(req) ==
    [ vehicleId   |-> req.vehicleId,
      customerId  |-> req.customerId,
      fromPincode |-> trim(req.fromPincode),
      toPincode   |-> trim(req.toPincode),
      startTime   |-> ParseDate(req.startTime).t,
      endTime     |-> calculateEndTime(ParseDate(req.startTime).t,
                          calculateEstimatedDuration(req.fromPincode, req.toPincode)),
      estimatedRideDurationHours |->
          calculateEstimatedDuration(req.fromPincode, req.toPincode),
      status      |-> "confirmed",
      actualStartTime |-> {},
      actualEndTime   |-> {},
      notes       |-> << >> ]

\* lines 70-79, with the setters of the schema (trim) applied
NewBooking(req) ==
    [ vehicleId   |-> req.vehicleId,
      customerId  |-> trim(req.customerId),
      fromPincode |-> trim(req.fromPincode),
      toPincode   |-> trim(req.toPincode),
      startTime   |-> ParseDate(req.startTime).t,
      endTime     |-> CreateEndTime(req),
      estimatedRideDurationHours |-> CreateDuration(req),
      status      |-> "confirmed",
      actualStartTime |-> {},
      actualEndTime   |-> {},
      notes       |-> << >> ]

\* line 81, booking.save(): the validators of the schema and the pre-save hook
SaveChecks(doc, t) ==
    IF doc.customerId = NoString THEN CustomerRequired
    ELSE IF ~(doc.startTime > t) THEN StartNotFuture
    ELSE IF doc.endTime <= doc.startTime THEN "End time must be after start time"
    ELSE OK

\* Variant: a save that looks for overlapping bookings again, in one step
\* with the insert.
SaveUnlessOverlapping(doc, bks, id, t) ==
    IF SaveChecks(doc, t) # OK
    THEN [outcome |-> SaveChecks(doc, t), bookings |-> bks]
    ELSE IF findOverlappingBookings(bks, doc.vehicleId, doc.startTime, doc.endTime, 0) # {}
    THEN [outcome |-> SlotUnavailable, bookings |-> bks]
    ELSE [outcome |-> OK, bookings |-> (id :> doc) @@ bks]

\* line 81, booking.save(): the document is inserted under a fresh id if the
\* validators pass; the collection has no unique index.
Save(doc, bks, id, t) ==
    IF SaveChecks(doc, t) # OK
    THEN [outcome |-> SaveChecks(doc, t), bookings |-> bks]
    ELSE [outcome |-> OK, bookings |-> (id :> doc) @@ bks]

\* The whole handler when nothing interleaves: outcome and the collection after.
createBooking(req, vs, bks, id, t) ==
    LET checks == CreateChecks(req, vs, t) IN
    IF checks # OK THEN [outcome |-> checks, bookings |-> bks]
    ELSE IF CreateOverlapping(req, bks) # {}
    THEN [outcome |-> SlotUnavailable, bookings |-> bks]
    ELSE Save(NewBooking(req), bks, id, t)

-----------------------------------------------------------------------------
(* BookingService.updateBookingStatus *)

NoExtra == [notes |-> << >>, actualStartTime |-> {}, actualEndTime |-> {}]

\* lines 164-173: updateData, built before the await.  A field that is not
\* part of the update is << >> (notes) or {} (a date).
BuildUpdate(status, additionalData, t) ==
    [ status |-> status,
      notes  |-> additionalData.notes,
      actualStartTime |->
          IF status = "in-progress" /\ additionalData.actualStartTime = {}
          THEN {t} ELSE additionalData.actualStartTime,
      actualEndTime |->
          IF status = "completed" /\ additionalData.actualEndTime = {}
          THEN {t} ELSE additionalData.actualEndTime ]

\* Variant: a ride that begins is rescheduled to the moment it begins.
ApplyUpdateMovingStart(doc, updateData) ==
    [ doc EXCEPT
        !.status = updateData.status,
        !.notes  = IF updateData.notes = << >> THEN @ ELSE updateData.notes,
        !.startTime =
            IF updateData.actualStartTime = {} THEN @
            ELSE CHOOSE t \in updateData.actualStartTime : TRUE,
        !.actualStartTime =
            IF updateData.actualStartTime = {} THEN @ ELSE updateData.actualStartTime,
        !.actualEndTime =
            IF updateData.actualEndTime = {} THEN @ ELSE updateData.actualEndTime ]

\* the $set that findByIdAndUpdate applies to the stored document
ApplyUpdate(doc, updateData) ==
    [ doc EXCEPT
        !.status = updateData.status,
        !.notes  = IF updateData.notes = << >> THEN @ ELSE updateData.notes,
        !.actualStartTime =
            IF updateData.actualStartTime = {} THEN @ ELSE updateData.actualStartTime,
        !.actualEndTime =
            IF updateData.actualEndTime = {} THEN @ ELSE updateData.actualEndTime ]

\* Variant: a booking that is completed or cancelled is never updated.
FindByIdAndUpdateUnlessFinished(bookingId, updateData, bks) ==
    IF updateData.status \notin BookingStatuses
    THEN [outcome |-> InvalidStatus, bookings |-> bks]
    ELSE IF bookingId \notin DOMAIN bks
    THEN [outcome |-> BookingNotFound, bookings |-> bks]
    ELSE IF bks[bookingId].status \in {"completed", "cancelled"}
    THEN [outcome |-> InvalidStatus, bookings |-> bks]
    ELSE [outcome |-> OK,
          bookings |-> [bks EXCEPT ![bookingId] = ApplyUpdate(@, updateData)]]

\* lines 175-185: Booking.findByIdAndUpdate(bookingId, updateData,
\* {new: true, runValidators: true}) and the null check.
FindByIdAndUpdate(bookingId, updateData, bks) ==
    IF updateData.status \notin BookingStatuses
    THEN [outcome |-> InvalidStatus, bookings |-> bks]
    ELSE IF bookingId \notin DOMAIN bks
    THEN [outcome |-> BookingNotFound, bookings |-> bks]
    ELSE [outcome |-> OK,
          bookings |-> [bks EXCEPT ![bookingId] = ApplyUpdate(@, updateData)]]

updateBookingStatus(bookingId, status, additionalData, bks, t) ==
    FindByIdAndUpdate(bookingId, BuildUpdate(status, additionalData, t), bks)

-----------------------------------------------------------------------------
(* BookingService.cancelBooking *)

MinCancelHours == 2

\* Variant: a completed booking is not turned away.
CancelChecksNoCompleted(bookingId, bks, t) ==
    IF bookingId \notin DOMAIN bks THEN BookingNotFound
    ELSE IF bks[bookingId].status = "cancelled" THEN AlreadyCancelled
    ELSE IF bks[bookingId].startTime - t < 2 * MinCancelHours THEN TooCloseToStart
    ELSE OK

\* Variant: hoursDiff <= 2 instead of hoursDiff < 2.
CancelChecksInclusive(bookingId, bks, t) ==
    IF bookingId \notin DOMAIN bks THEN BookingNotFound
    ELSE IF bks[bookingId].status = "completed" THEN AlreadyCompleted
    ELSE IF bks[bookingId].status = "cancelled" THEN AlreadyCancelled
    ELSE IF bks[bookingId].startTime - t <= 2 * MinCancelHours THEN TooCloseToStart
    ELSE OK

\* lines 200-221, against the document that Booking.findById returned
CancelChecks(bookingId, bks, t) ==
    IF bookingId \notin DOMAIN bks THEN BookingNotFound
    ELSE IF bks[bookingId].status = "completed" THEN AlreadyCompleted
    ELSE IF bks[bookingId].status = "cancelled" THEN AlreadyCancelled
    ELSE IF bks[bookingId].startTime - t < 2 * MinCancelHours THEN TooCloseToStart
    ELSE OK

\* line 226
CancelNotes(reason) ==
    IF reason # NoString THEN <<"Cancelled: ", reason>> ELSE <<"Cancelled by user">>

cancelBooking(bookingId, reason, bks, t) ==
    IF CancelChecks(bookingId, bks, t) # OK
    THEN [outcome |-> CancelChecks(bookingId, bks, t), bookings |-> bks]
    ELSE updateBookingStatus(bookingId, "cancelled",
                             [NoExtra EXCEPT !.notes = CancelNotes(reason)], bks, t)

-----------------------------------------------------------------------------
(* BookingService.deleteBooking *)

\* Variant: only an active booking is turned away.
DeleteChecksUnlessActive(bookingId, bks) ==
    IF bookingId \notin DOMAIN bks THEN BookingNotFound
    ELSE IF bks[bookingId].status \in ActiveStatuses THEN NotCancelled
    ELSE OK

\* lines 332-341
DeleteChecks(bookingId, bks) ==
    IF bookingId \notin DOMAIN bks THEN BookingNotFound
    ELSE IF bks[bookingId].status # "cancelled" THEN NotCancelled
    ELSE OK

\* line 343: Booking.findByIdAndDelete
FindByIdAndDelete(bookingId, bks) ==
    [id \in DOMAIN bks \ {bookingId} |-> bks[id]]

deleteBooking(bookingId, bks) ==
    IF DeleteChecks(bookingId, bks) # OK
    THEN [outcome |-> DeleteChecks(bookingId, bks), bookings |-> bks]
    ELSE [outcome |-> OK, bookings |-> FindByIdAndDelete(bookingId, bks)]

-----------------------------------------------------------------------------
(* BookingService.getBookingById *)

\* lines 105-109: Booking.findById(bookingId) and the null check
getBookingById(bookingId, bks) ==
    IF bookingId \notin DOMAIN bks THEN BookingNotFound ELSE OK

-----------------------------------------------------------------------------
(* VehicleService.updateVehicleStatus and deleteVehicle *)

\* Variant: a vehicle that has left the active status never returns to it.
updateVehicleStatusOneWay(vehicleId, status, vs) ==
    IF status \notin VehicleStatuses
    THEN [outcome |-> InvalidStatus, vehicles |-> vs]
    ELSE IF vehicleId \notin DOMAIN vs
    THEN [outcome |-> VehicleNotFound, vehicles |-> vs]
    ELSE IF vs[vehicleId].status # "active" /\ status = "active"
    THEN [outcome |-> InvalidStatus, vehicles |-> vs]
    ELSE [outcome |-> OK, vehicles |-> [vs EXCEPT ![vehicleId].status = status]]

\* Vehicle.findByIdAndUpdate(vehicleId, {status}, {new: true, runValidators})
updateVehicleStatus(vehicleId, status, vs) ==
    IF status \notin VehicleStatuses
    THEN [outcome |-> InvalidStatus, vehicles |-> vs]
    ELSE IF vehicleId \notin DOMAIN vs
    THEN [outcome |-> VehicleNotFound, vehicles |-> vs]
    ELSE [outcome |-> OK, vehicles |-> [vs EXCEPT ![vehicleId].status = status]]

\* Variant: Booking.find({vehicleId, status: 'confirmed'})
ConfirmedBookingsOf(vehicleId, bks) ==
    { id \in DOMAIN bks :
        bks[id].vehicleId = vehicleId /\ bks[id].status = "confirmed" }

\* lines 372-379: Booking.find({vehicleId, status: {$in: [...]}})
ActiveBookingsOf(vehicleId, bks) ==
    { id \in DOMAIN bks :
        bks[id].vehicleId = vehicleId /\ bks[id].status \in ActiveStatuses }

\* Variant: the vehicle record is removed (Vehicle.findByIdAndDelete).
RetireRemoving(vehicleId, vs) ==
    IF vehicleId \notin DOMAIN vs
    THEN [outcome |-> VehicleNotFound, vehicles |-> vs]
    ELSE [outcome |-> OK,
          vehicles |-> [v \in DOMAIN vs \ {vehicleId} |-> vs[v]]]

\* lines 381-389
Retire(vehicleId, vs) ==
    IF vehicleId \notin DOMAIN vs
    THEN [outcome |-> VehicleNotFound, vehicles |-> vs]
    ELSE [outcome |-> OK, vehicles |-> [vs EXCEPT ![vehicleId].status = "retired"]]

deleteVehicle(vehicleId, vs, bks) ==
    IF ActiveBookingsOf(vehicleId, bks) # {}
    THEN [outcome |-> HasActiveBookings, vehicles |-> vs]
    ELSE Retire(vehicleId, vs)

-----------------------------------------------------------------------------
(* VehicleService.findAvailableVehicles *)

\* Variant: requestedStartTime < new Date() instead of <=.
SearchChecksAtNow(criteria, t) ==
    LET requestedStartTime == ParseDate(criteria.startTime) IN
    IF \/ criteria.capacityRequired = 0 \/ criteria.fromPincode = NoString
       \/ criteria.toPincode = NoString \/ criteria.startTime.kind \in {"none", "null"}
    THEN MissingCriteria
    ELSE IF ~isValidPincode(criteria.fromPincode) \/ ~isValidPincode(criteria.toPincode)
    THEN InvalidPincode
    ELSE IF ~requestedStartTime.valid THEN InvalidTimeFormat
    ELSE IF requestedStartTime.t < t THEN PastStartTime
    ELSE OK

\* Variant: only fromPincode is validated.
SearchChecksFromOnly(criteria, t) ==
    LET requestedStartTime == ParseDate(criteria.startTime) IN
    IF \/ criteria.capacityRequired = 0 \/ criteria.fromPincode = NoString
       \/ criteria.toPincode = NoString \/ criteria.startTime.kind \in {"none", "null"}
    THEN MissingCriteria
    ELSE IF ~isValidPincode(criteria.fromPincode)
    THEN InvalidPincode
    ELSE IF ~requestedStartTime.valid THEN InvalidTimeFormat
    ELSE IF requestedStartTime.t <= t THEN PastStartTime
    ELSE OK

\* lines 212-233
SearchChecks(criteria, t) ==
    LET requestedStartTime == ParseDate(criteria.startTime) IN
    IF \/ criteria.capacityRequired = 0 \/ criteria.fromPincode = NoString
       \/ criteria.toPincode = NoString \/ criteria.startTime.kind \in {"none", "null"}
    THEN MissingCriteria
    ELSE IF ~isValidPincode(criteria.fromPincode) \/ ~isValidPincode(criteria.toPincode)
    THEN InvalidPincode
    ELSE IF ~requestedStartTime.valid THEN InvalidTimeFormat
    ELSE IF requestedStartTime.t <= t THEN PastStartTime
    ELSE OK

\* lines 247-250: Vehicle.find({capacityKg: {$gte: ...}, status: 'active'}),
\* in the order of the collection
RECURSIVE IdsUpTo(_)
IdsUpTo(n) == IF n = 0 THEN << >> ELSE Append(IdsUpTo(n - 1), n)

\* Variant: Vehicle.find({capacityKg: {$gte: ...}}) without the status.
EligibleAnyStatus(capacityRequired, vs) ==
    LET eligible(id) == /\ id \in DOMAIN vs
                        /\ vs[id].capacityKg >= capacityRequired
    IN  SelectSeq(IdsUpTo(NumVehicles), eligible)

EligibleVehicles(capacityRequired, vs) ==
    LET eligible(id) == /\ id \in DOMAIN vs
                        /\ vs[id].capacityKg >= capacityRequired
                        /\ vs[id].status = "active"
    IN  SelectSeq(IdsUpTo(NumVehicles), eligible)

\* lines 236-244
SearchDuration(criteria) ==
    calculateEstimatedDuration(criteria.fromPincode, criteria.toPincode)
SearchEndTime(criteria) ==
    calculateEndTime(ParseDate(criteria.startTime).t, SearchDuration(criteria))

\* lines 252-289: the ids of the vehicles pushed to availableVehicles
AvailableAmong(eligibleVehicles, criteria, bks) ==
    LET free(id) == findOverlappingBookings(bks, id, ParseDate(criteria.startTime).t,
                                            SearchEndTime(criteria), 0) = {}
    IN  SelectSeq(eligibleVehicles, free)

\* The whole handler: the outcome, the ids of the vehicles returned, and what
\* every returned entry carries (estimatedRideDurationHours, searchCriteria).
findAvailableVehicles(criteria, vs, bks, t) ==
    IF SearchChecks(criteria, t) # OK
    THEN [outcome |-> SearchChecks(criteria, t), available |-> << >>,
          estimatedRideDurationHours |-> 0,
          requestedStartTime |-> 0, requestedEndTime |-> 0]
    ELSE [outcome |-> OK,
          available |-> AvailableAmong(
              EligibleVehicles(criteria.capacityRequired, vs), criteria, bks),
          estimatedRideDurationHours |-> SearchDuration(criteria),
          requestedStartTime |-> ParseDate(criteria.startTime).t,
          requestedEndTime |-> SearchEndTime(criteria)]

\* lines 252-262: the number of findOverlappingBookings queries that the
\* handler issues: none when a check fails or no vehicle is eligible (the
\* early return), else one for each eligible vehicle.
OverlapQueries(criteria, vs, t) ==
    IF SearchChecks(criteria, t) # OK THEN 0
    ELSE Len(EligibleVehicles(criteria.capacityRequired, vs))

-----------------------------------------------------------------------------
(* RideCalculationService called directly, with arguments of any type *)

\* JavaScript values passed where a pincode is expected
Str(s) == [type |-> "string", text |-> s, num |-> 0]
Num(n) == [type |-> "number", text |-> << >>, num |-> n]
Null   == [type |-> "null", text |-> << >>, num |-> 0]

DigitChar(d) ==
    CASE d = 0 -> "0" [] d = 1 -> "1" [] d = 2 -> "2" [] d = 3 -> "3"
      [] d = 4 -> "4" [] d = 5 -> "5" [] d = 6 -> "6" [] d = 7 -> "7"
      [] d = 8 -> "8" [] d = 9 -> "9"

\* Number.prototype.toString of a natural number
RECURSIVE Decimal(_)
Decimal(n) ==
    IF n < 10 THEN <<DigitChar(n)>>
    ELSE Append(Decimal(n \div 10), DigitChar(n % 10))

\* ToString, which RegExp.prototype.test and parseInt apply to their argument
JSToString(value) ==
    CASE value.type = "string" -> value.text
      [] value.type = "number" -> Decimal(value.num)
      [] value.type = "null"   -> <<"n", "u", "l", "l">>

\* isValidPincode on a value of any type: pincodeRegex.test(pincode)
isValidPincodeValue(value) == isValidPincode(JSToString(value))

InvalidDuration == "Duration must be a positive number"

Failed(cause)    == [outcome |-> cause, value |-> 0]
Computed(value)  == [outcome |-> OK, value |-> value]

\* Variant: the difference is not reduced modulo 24.
calculateEstimatedDurationUnreduced(fromValue, toValue) ==
    IF ~isValidPincodeValue(fromValue) \/ ~isValidPincodeValue(toValue)
    THEN Failed(InvalidPincode)
    ELSE Computed(Max(2 * Abs(parseInt(JSToString(toValue)) - parseInt(JSToString(fromValue))), 1))

\* calculateEstimatedDuration as a whole, lines 14-35: the validation, then the
\* duration (in half hours) of the strings that parseInt reads.
calculateEstimatedDurationOf(fromValue, toValue) ==
    IF ~isValidPincodeValue(fromValue) \/ ~isValidPincodeValue(toValue)
    THEN Failed(InvalidPincode)
    ELSE Computed(calculateEstimatedDuration(JSToString(fromValue), JSToString(toValue)))

\* Math.round(num / den) for num >= 0, den > 0: halves round up
MathRound(num, den) == (2 * num + den) \div (2 * den)

AverageSpeed == 50

\* Variant: an average speed of 60 km/h.
calculateEstimatedDistanceAtSixty(fromValue, toValue) ==
    LET duration == calculateEstimatedDurationOf(fromValue, toValue) IN
    IF duration.outcome # OK THEN Failed(duration.outcome)
    ELSE Computed(MathRound(duration.value * 60, 2))

\* lines 85-97: Math.round(duration * averageSpeed), duration.value being in
\* half hours
calculateEstimatedDistance(fromValue, toValue) ==
    LET duration == calculateEstimatedDurationOf(fromValue, toValue) IN
    IF duration.outcome # OK THEN Failed(duration.outcome)
    ELSE Computed(MathRound(duration.value * AverageSpeed, 2))

BaseRate          == 500
PerKmRate         == 10
KgPerUnit         == 1000
DefaultCapacityKg == 1000

\* the capacityKg parameter: {} when the argument is omitted
CapacityArgument(capacity) ==
    IF capacity = {} THEN DefaultCapacityKg ELSE CHOOSE c \in capacity : TRUE

\* Variant: capacityMultiplier = capacityKg / 1000, without Math.max.
getRouteInfoUnfloored(fromValue, toValue, capacity) ==
    LET duration   == calculateEstimatedDurationOf(fromValue, toValue)
        distance   == calculateEstimatedDistance(fromValue, toValue)
        capacityKg == CapacityArgument(capacity)
    IN  IF duration.outcome # OK THEN Failed(duration.outcome)
        ELSE Computed(
               [ estimatedDurationHours |-> duration.value,
                 estimatedDistanceKm    |-> distance.value,
                 estimatedCost |->
                     MathRound(BaseRate * KgPerUnit
                                 + distance.value * PerKmRate * capacityKg,
                               KgPerUnit) ])

\* lines 107-131.  capacityMultiplier = Math.max(1, capacityKg / 1000) is kept
\* in thousandths: Max(1000, capacityKg) / 1000.
getRouteInfo(fromValue, toValue, capacity) ==
    LET duration   == calculateEstimatedDurationOf(fromValue, toValue)
        distance   == calculateEstimatedDistance(fromValue, toValue)
        capacityKg == CapacityArgument(capacity)
    IN  IF duration.outcome # OK THEN Failed(duration.outcome)
        ELSE Computed(
               [ estimatedDurationHours |-> duration.value,
                 estimatedDistanceKm    |-> distance.value,
                 estimatedCost |->
                     MathRound(BaseRate * KgPerUnit
                                 + distance.value * PerKmRate * Max(KgPerUnit, capacityKg),
                               KgPerUnit) ])

\* the durationHours argument: a number (kept in half hours) or null
Hours(halfHours) == [kind |-> "number", n |-> halfHours]
NullHours        == [kind |-> "null", n |-> 0]

\* calculateEndTime as a whole, lines 44-64
calculateEndTimeOf(startTime, durationHours) ==
    LET start == ParseDate(startTime) IN
    IF ~start.valid THEN Failed(InvalidTimeFormat)
    ELSE IF durationHours.kind = "null" \/ durationHours.n = 0 \/ durationHours.n <= 0
    THEN Failed(InvalidDuration)
    ELSE Computed(calculateEndTime(start.t, durationHours.n))

-----------------------------------------------------------------------------
(* Inputs *)

Customer1       == <<"c", "1">>
PaddedCustomer1 == <<" ", "c", "1">>
BlankCustomer   == <<" ">>
Reasons         == {NoString, <<"r">>}

Request(v, c, from, to, st) ==
    [vehicleId |-> v, customerId |-> c, fromPincode |-> from, toPincode |-> to,
     startTime |-> st]

\* Requests that differ from a well-formed one in the ways the checks look for.
Malformed(v, st) ==
    { Request(0, Customer1, P110001, P110002, st),
      Request(v, NoString, P110001, P110002, st),
      Request(v, BlankCustomer, P110001, P110002, st),
      Request(v, Customer1, P11001, P110002, st),
      Request(v, Customer1, P110001, NoString, st),
      Request(v, Customer1, P110001, P110002, NoDate),
      Request(v, Customer1, P110001, P110002, GarbageDate),
      Request(NumVehicles + 1, Customer1, P11001, P110002, GarbageDate) }

\* Start times from one half hour before the epoch of the model to MaxStart.
StartTimes == { IsoDate(t) : t \in (0 - 1)..MaxStart }

BookingRequests ==
    { Request(v, c, P110001, to, st) :
        v \in 1..(NumVehicles + 1), c \in {Customer1, PaddedCustomer1},
        to \in {P110001, P110002}, st \in StartTimes }
    \cup Malformed(1, IsoDate(1))

Criteria(cap, from, to, st) ==
    [capacityRequired |-> cap, fromPincode |-> from, toPincode |-> to, startTime |-> st]

SearchCriteria ==
    { Criteria(cap, P110001, to, st) :
        cap \in {CapacityOf(i) - 500 : i \in 1..(NumVehicles + 1)},
        to \in {P110001, P110002}, st \in StartTimes }
    \cup { Criteria(0, P110001, P110002, IsoDate(1)),
           Criteria(500, P11001, P110002, IsoDate(1)),
           Criteria(500, P110001, NoString, IsoDate(1)),
           Criteria(500, P110001, P110002, NoDate),
           Criteria(500, P110001, P110002, GarbageDate) }

StatusInputs        == BookingStatuses \cup {"archived"}
VehicleStatusInputs == VehicleStatuses \cup {"sold"}
WithNotes           == [NoExtra EXCEPT !.notes = <<"note">>]

-----------------------------------------------------------------------------
(* The state machine *)

NoBookings == [id \in {} |-> 0]

Returned(op, outcome, id) ==
    [op |-> op, outcome |-> outcome, id |-> id, available |-> << >>]

NoResponse == Returned("none", OK, 0)

\* no call of RideCalculationService is under way
NoCalc == [fn |-> "none"]

Init ==
    /\ vehicles = [id \in 1..NumVehicles |->
                       [capacityKg |-> CapacityOf(id), status |-> "active"]]
    /\ bookings = NoBookings
    /\ nextId = 1
    /\ now = 0
    /\ calls = EmptyBag
    /\ response = NoResponse
    /\ calc = NoCalc

\* The caller takes the response; the service is ready for the next event.
Deliver ==
    /\ response # NoResponse
    /\ response' = NoResponse
    /\ UNCHANGED <<vehicles, bookings, nextId, now, calls, calc>>

\* The clock advances.
Tick ==
    /\ response = NoResponse
    /\ now < MaxNow
    /\ now' = now + 1
    /\ UNCHANGED <<vehicles, bookings, nextId, calls, response, calc>>

(* Calls that run from invocation to return with no other call in between. *)

CreateBooking(requests, maxDocs) ==
    /\ response = NoResponse
    /\ nextId <= maxDocs
    /\ \E req \in requests :
         LET r == createBooking(req, vehicles, bookings, nextId, now) IN
         /\ bookings' = r.bookings
         /\ nextId' = IF r.outcome = OK THEN nextId + 1 ELSE nextId
         /\ response' = Returned("createBooking", r.outcome,
                                 IF r.outcome = OK THEN nextId ELSE 0)
    /\ UNCHANGED <<vehicles, now, calls, calc>>

\* updateBookingStatus has one await: the call is one step of the store.
UpdateBookingStatus(statuses, extras) ==
    /\ response = NoResponse
    /\ \E id \in 1..MaxBookings, status \in statuses, extra \in extras :
         LET r == updateBookingStatus(id, status, extra, bookings, now) IN
         /\ bookings' = r.bookings
         /\ response' = Returned("updateBookingStatus", r.outcome, id)
    /\ UNCHANGED <<vehicles, nextId, now, calls, calc>>

CancelBooking ==
    /\ response = NoResponse
    /\ \E id \in 1..MaxBookings, reason \in Reasons :
         LET r == cancelBooking(id, reason, bookings, now) IN
         /\ bookings' = r.bookings
         /\ response' = Returned("cancelBooking", r.outcome, id)
    /\ UNCHANGED <<vehicles, nextId, now, calls, calc>>

DeleteBooking ==
    /\ response = NoResponse
    /\ \E id \in 1..MaxBookings :
         LET r == deleteBooking(id, bookings) IN
         /\ bookings' = r.bookings
         /\ response' = Returned("deleteBooking", r.outcome, id)
    /\ UNCHANGED <<vehicles, nextId, now, calls, calc>>

\* updateVehicleStatus has one await: the call is one step of the store.
GetBookingById ==
    /\ response = NoResponse
    /\ \E id \in 1..MaxBookings :
         response' = Returned("getBookingById", getBookingById(id, bookings), id)
    /\ UNCHANGED <<vehicles, bookings, nextId, now, calls, calc>>

UpdateVehicleStatus(ids, statuses) ==
    /\ response = NoResponse
    /\ \E id \in ids, status \in statuses :
         LET r == updateVehicleStatus(id, status, vehicles) IN
         /\ vehicles' = r.vehicles
         /\ response' = Returned("updateVehicleStatus", r.outcome, id)
    /\ UNCHANGED <<bookings, nextId, now, calls, calc>>

DeleteVehicle ==
    /\ response = NoResponse
    /\ \E id \in 1..(NumVehicles + 1) :
         LET r == deleteVehicle(id, vehicles, bookings) IN
         /\ vehicles' = r.vehicles
         /\ response' = Returned("deleteVehicle", r.outcome, id)
    /\ UNCHANGED <<bookings, nextId, now, calls, calc>>

FindAvailableVehicles ==
    /\ response = NoResponse
    /\ \E criteria \in SearchCriteria :
         LET r == findAvailableVehicles(criteria, vehicles, bookings, now) IN
         response' = [Returned("findAvailableVehicles", r.outcome, 0)
                        EXCEPT !.available = r.available]
    /\ UNCHANGED <<vehicles, bookings, nextId, now, calls, calc>>

(* One call at a time, at a fixed instant: bookings are created on the     *)
(* fleet and change status; searches run against them.                     *)
NextSeq ==
    \/ Deliver
    \/ CreateBooking(BookingRequests, MaxBookings)
    \/ UpdateBookingStatus(StatusInputs, {NoExtra})
    \/ FindAvailableVehicles

SpecSeq == Init /\ [][NextSeq]_vars

(* One call at a time, at a fixed instant: the vehicles change status and   *)
(* are retired while a booking is created and changes status.              *)
NextFleet ==
    \/ Deliver
    \/ CreateBooking(BookingRequests, MaxBookings - 1)
    \/ UpdateBookingStatus(StatusInputs, {NoExtra})
    \/ UpdateVehicleStatus(1..(NumVehicles + 1), VehicleStatusInputs)
    \/ DeleteVehicle
    \/ FindAvailableVehicles

SpecFleet == Init /\ [][NextFleet]_vars

(* One call at a time while the clock advances: the life of a booking that  *)
(* starts soon, exactly at the cancellation limit, or later.               *)
LifeRequests ==
    { Request(1, Customer1, P110001, P110001, IsoDate(t)) :
        t \in {1, 2 * MinCancelHours, 2 * MinCancelHours + 1} }

NextLife ==
    \/ Deliver
    \/ Tick
    \/ CreateBooking(LifeRequests, MaxBookings - 1)
    \/ UpdateBookingStatus(StatusInputs, {NoExtra, WithNotes})
    \/ CancelBooking
    \/ DeleteBooking
    \/ GetBookingById

SpecLife == Init /\ [][NextLife]_vars

-----------------------------------------------------------------------------
(* Calls in flight.  A handler with several awaits runs as several steps:   *)
(* each step is one operation of the store together with the synchronous   *)
(* code that follows it, up to the next await or the return.  Between two  *)
(* steps of a call any step of another call may run.  A call in flight is  *)
(* a frame in the bag calls.                                               *)

NoRequest == Request(0, NoString, NoString, NoString, NoDate)
NoUpdate  == [status |-> "", notes |-> << >>, actualStartTime |-> {}, actualEndTime |-> {}]

Frame(op, pc, id, req, upd) == [op |-> op, pc |-> pc, id |-> id, req |-> req, upd |-> upd]

FramesAt(op, pc) == { f \in BagToSet(calls) : f.op = op /\ f.pc = pc }

RECURSIVE CopiesOf(_)
CopiesOf(frames) ==
    IF frames = {} THEN 0
    ELSE LET f == CHOOSE x \in frames : TRUE
         IN  CopiesIn(f, calls) + CopiesOf(frames \ {f})

\* createBooking calls that have not saved yet
CreatesNotSaved ==
    CopiesOf({ f \in BagToSet(calls) : f.op = "createBooking" /\ f.pc # "populate" })

CanStart == response = NoResponse /\ BagCardinality(calls) < MaxInFlight

Start(f)       == calls' = calls (+) SetToBag({f})
Move(f, g)     == calls' = (calls (-) SetToBag({f})) (+) SetToBag({g})
Finish(f)      == calls' = calls (-) SetToBag({f})

\* Two one-hour rides of vehicle 1 whose windows intersect, far enough ahead
\* to be cancelled.
RaceRequests ==
    { Request(1, Customer1, P110001, P110002, IsoDate(t)) :
        t \in {2 * MinCancelHours, 2 * MinCancelHours + 1} }

\* createBooking, lines 14-56: from the call to the answer of Vehicle.findById
\* and the checks that follow it; the overlap query is issued.
CreateFindVehicle ==
    /\ CanStart
    /\ nextId + CreatesNotSaved <= MaxBookings
    /\ \E req \in RaceRequests :
         LET checks == CreateChecks(req, vehicles, now) IN
         IF checks # OK
         THEN /\ response' = Returned("createBooking", checks, 0)
              /\ calls' = calls
         ELSE /\ Start(Frame("createBooking", "overlap", 0, req, NoUpdate))
              /\ response' = response
    /\ UNCHANGED <<vehicles, bookings, nextId, now, calc>>

\* lines 59-79: the answer of findOverlappingBookings, the check on it, and
\* new Booking(...); save is issued.
CreateCheckOverlap ==
    /\ response = NoResponse
    /\ \E f \in FramesAt("createBooking", "overlap") :
         IF CreateOverlapping(f.req, bookings) # {}
         THEN /\ Finish(f)
              /\ response' = Returned("createBooking", SlotUnavailable, 0)
         ELSE /\ Move(f, [f EXCEPT !.pc = "save"])
              /\ response' = response
    /\ UNCHANGED <<vehicles, bookings, nextId, now, calc>>

\* line 81: booking.save()
CreateSave ==
    /\ response = NoResponse
    /\ \E f \in FramesAt("createBooking", "save") :
         LET r == Save(NewBooking(f.req), bookings, nextId, now) IN
         IF r.outcome # OK
         THEN /\ Finish(f)
              /\ response' = Returned("createBooking", r.outcome, 0)
              /\ UNCHANGED <<bookings, nextId>>
         ELSE /\ Move(f, [f EXCEPT !.pc = "populate", !.id = nextId])
              /\ bookings' = r.bookings
              /\ nextId' = nextId + 1
              /\ response' = response
    /\ UNCHANGED <<vehicles, now, calc>>

\* lines 84-86: booking.populate('vehicleId') and the return
CreatePopulate ==
    /\ response = NoResponse
    /\ \E f \in FramesAt("createBooking", "populate") :
         /\ Finish(f)
         /\ response' = Returned("createBooking", OK, f.id)
    /\ UNCHANGED <<vehicles, bookings, nextId, now, calc>>

\* cancelBooking, lines 200-227: from the call to the answer of
\* Booking.findById and the checks on it; updateBookingStatus is called and
\* issues its findByIdAndUpdate.
CancelFindById ==
    /\ CanStart
    /\ \E id \in 1..MaxBookings, reason \in {NoString} :
         LET checks == CancelChecks(id, bookings, now) IN
         IF checks # OK
         THEN /\ response' = Returned("cancelBooking", checks, id)
              /\ calls' = calls
         ELSE /\ Start(Frame("cancelBooking", "update", id, NoRequest,
                             BuildUpdate("cancelled",
                                 [NoExtra EXCEPT !.notes = CancelNotes(reason)], now)))
              /\ response' = response
    /\ UNCHANGED <<vehicles, bookings, nextId, now, calc>>

\* lines 175-185 on behalf of cancelBooking, and its return
CancelUpdate ==
    /\ response = NoResponse
    /\ \E f \in FramesAt("cancelBooking", "update") :
         LET r == FindByIdAndUpdate(f.id, f.upd, bookings) IN
         /\ Finish(f)
         /\ bookings' = r.bookings
         /\ response' = Returned("cancelBooking", r.outcome, f.id)
    /\ UNCHANGED <<vehicles, nextId, now, calc>>

\* deleteBooking, lines 332-341: from the call to the answer of
\* Booking.findById and the checks on it; findByIdAndDelete is issued.
DeleteFindById ==
    /\ CanStart
    /\ \E id \in 1..MaxBookings :
         LET checks == DeleteChecks(id, bookings) IN
         IF checks # OK
         THEN /\ response' = Returned("deleteBooking", checks, id)
              /\ calls' = calls
         ELSE /\ Start(Frame("deleteBooking", "delete", id, NoRequest, NoUpdate))
              /\ response' = response
    /\ UNCHANGED <<vehicles, bookings, nextId, now, calc>>

\* lines 343-345
DeleteRemove ==
    /\ response = NoResponse
    /\ \E f \in FramesAt("deleteBooking", "delete") :
         /\ Finish(f)
         /\ bookings' = FindByIdAndDelete(f.id, bookings)
         /\ response' = Returned("deleteBooking", OK, f.id)
    /\ UNCHANGED <<vehicles, nextId, now, calc>>

\* deleteVehicle, lines 372-379: from the call to the answer of Booking.find
\* and the check on it; findByIdAndUpdate is issued.
DeleteVehicleFind ==
    /\ CanStart
    /\ \E id \in {1} :
         IF ActiveBookingsOf(id, bookings) # {}
         THEN /\ response' = Returned("deleteVehicle", HasActiveBookings, id)
              /\ calls' = calls
         ELSE /\ Start(Frame("deleteVehicle", "retire", id, NoRequest, NoUpdate))
              /\ response' = response
    /\ UNCHANGED <<vehicles, bookings, nextId, now, calc>>

\* lines 381-391
DeleteVehicleRetire ==
    /\ response = NoResponse
    /\ \E f \in FramesAt("deleteVehicle", "retire") :
         LET r == Retire(f.id, vehicles) IN
         /\ Finish(f)
         /\ vehicles' = r.vehicles
         /\ response' = Returned("deleteVehicle", r.outcome, f.id)
    /\ UNCHANGED <<bookings, nextId, now, calc>>

(* Every operation that writes, interleaved at its awaits, at a fixed      *)
(* instant.                                                                 *)
Next ==
    \/ Deliver
    \/ CreateFindVehicle
    \/ CreateCheckOverlap
    \/ CreateSave
    \/ CreatePopulate
    \/ UpdateBookingStatus({"confirmed", "cancelled"}, {NoExtra})
    \/ CancelFindById
    \/ CancelUpdate
    \/ DeleteFindById
    \/ DeleteRemove
    \/ UpdateVehicleStatus({1}, {"active", "maintenance"})
    \/ DeleteVehicleFind
    \/ DeleteVehicleRetire

Spec == Init /\ [][Next]_vars

(* The store may fail.  An operation of the store that a call awaits may   *)
(* be rejected (the connection is lost, a timeout expires); it then has no *)
(* effect, and the catch block of the call runs.                           *)

(* Bookings are created, change status with or without notes and are      *)
(* deleted, while cancelBooking runs interleaved at its await.             *)
NextCancel ==
    \/ Deliver
    \/ CreateBooking(RaceRequests, MaxBookings)
    \/ UpdateBookingStatus(StatusInputs, {NoExtra, WithNotes})
    \/ CancelFindById
    \/ CancelUpdate
    \/ DeleteBooking

SpecCancel == Init /\ [][NextCancel]_vars

StoreError == "connection closed"

Operations ==
    { "createBooking", "updateBookingStatus", "cancelBooking", "deleteBooking",
      "updateVehicleStatus", "deleteVehicle" }

\* the first operation that a call awaits is rejected
FirstAwaitRejected ==
    /\ CanStart
    /\ \E op \in Operations : response' = Returned(op, StoreError, 0)
    /\ UNCHANGED <<vehicles, bookings, nextId, now, calls, calc>>

\* The operation that a call in flight awaits is rejected: the overlap query,
\* the save or the populate of createBooking (part_003:59, 81, 84), the
\* update of cancelBooking, the delete of deleteBooking, the update of
\* deleteVehicle.
AwaitRejected ==
    /\ response = NoResponse
    /\ \E f \in BagToSet(calls) :
         /\ Finish(f)
         /\ response' = Returned(f.op, StoreError, f.id)
    /\ UNCHANGED <<vehicles, bookings, nextId, now, calc>>

NextFaults ==
    \/ Deliver
    \/ CreateFindVehicle
    \/ CreateCheckOverlap
    \/ CreateSave
    \/ CreatePopulate
    \/ UpdateBookingStatus({"confirmed", "cancelled"}, {NoExtra})
    \/ CancelFindById
    \/ CancelUpdate
    \/ DeleteFindById
    \/ DeleteRemove
    \/ UpdateVehicleStatus({1}, {"active", "maintenance"})
    \/ DeleteVehicleFind
    \/ DeleteVehicleRetire
    \/ FirstAwaitRejected
    \/ AwaitRejected

SpecFaults == Init /\ [][NextFaults]_vars

-----------------------------------------------------------------------------
(* RideCalculationService called directly: one call, from its arguments to *)
(* its result.                                                             *)

P110005  == Decimal(110005)
P110025  == Decimal(110025)
P110030  == Decimal(110030)
P110050  == Decimal(110050)
P999999  == Decimal(999999)
P000000  == <<"0", "0", "0", "0", "0", "0">>
P1100012 == Decimal(1100012)
P11000a  == <<"1", "1", "0", "0", "0", "a">>
PDashed  == <<"1", "1", "0", "-", "0", "0", "1">>

\* what the tests pass to isValidPincode
PincodeValues ==
    { Str(P110001), Str(P000000), Str(P999999), Str(P11001), Str(P1100012),
      Str(P11000a), Str(PDashed), Str(NoString), Null,
      Num(110001), Num(11001), Num(1100012) }

RouteValues ==
    { Str(P110001), Str(P110005), Str(P110025), Str(P110030), Str(P110050),
      Str(P000000), Str(P999999), Str(P11001), Str(P11000a), Null, Num(110001) }

CostedValues == { Str(P110001), Str(P110005), Str(P110025), Str(P11001) }

Capacities == { {} } \cup { {c * (KgPerUnit \div 2)} : c \in 0..5 }

EndTimeStarts == StartTimes \cup {GarbageDate, NoDate, NullDate}

DurationArguments == { Hours(n) : n \in (0 - 2)..5 } \cup {NullHours}

Call(fn, args) == [fn |-> fn, args |-> args, done |-> FALSE, result |-> Failed("pending")]

CalcCalls ==
    { Call("isValidPincode", <<v>>) : v \in PincodeValues }
    \cup { Call("calculateEstimatedDuration", <<p, q>>) : p, q \in RouteValues }
    \cup { Call("calculateEstimatedDistance", <<p, q>>) : p, q \in RouteValues }
    \cup { Call("getRouteInfo", <<p, q, c>>) : p, q \in CostedValues, c \in Capacities }
    \cup { Call("calculateEndTime", <<s, d>>) : s \in EndTimeStarts, d \in DurationArguments }

InitCalc ==
    /\ vehicles = [id \in 1..NumVehicles |->
                       [capacityKg |-> CapacityOf(id), status |-> "active"]]
    /\ bookings = NoBookings
    /\ nextId = 1
    /\ now = 0
    /\ calls = EmptyBag
    /\ response = NoResponse
    /\ calc \in CalcCalls

\* the call that is pending returns result
Result(result) == [calc EXCEPT !.done = TRUE, !.result = result]

IsValidPincode ==
    /\ calc.fn = "isValidPincode" /\ ~calc.done
    /\ calc' = Result(Computed(isValidPincodeValue(calc.args[1])))
    /\ UNCHANGED <<vehicles, bookings, nextId, now, calls, response>>

CalculateEstimatedDuration ==
    /\ calc.fn = "calculateEstimatedDuration" /\ ~calc.done
    /\ calc' = Result(calculateEstimatedDurationOf(calc.args[1], calc.args[2]))
    /\ UNCHANGED <<vehicles, bookings, nextId, now, calls, response>>

CalculateEstimatedDistance ==
    /\ calc.fn = "calculateEstimatedDistance" /\ ~calc.done
    /\ calc' = Result(calculateEstimatedDistance(calc.args[1], calc.args[2]))
    /\ UNCHANGED <<vehicles, bookings, nextId, now, calls, response>>

GetRouteInfo ==
    /\ calc.fn = "getRouteInfo" /\ ~calc.done
    /\ calc' = Result(getRouteInfo(calc.args[1], calc.args[2], calc.args[3]))
    /\ UNCHANGED <<vehicles, bookings, nextId, now, calls, response>>

CalculateEndTime ==
    /\ calc.fn = "calculateEndTime" /\ ~calc.done
    /\ calc' = Result(calculateEndTimeOf(calc.args[1], calc.args[2]))
    /\ UNCHANGED <<vehicles, bookings, nextId, now, calls, response>>

NextCalc ==
    \/ IsValidPincode
    \/ CalculateEstimatedDuration
    \/ CalculateEstimatedDistance
    \/ GetRouteInfo
    \/ CalculateEndTime

SpecCalc == InitCalc /\ [][NextCalc]_vars

-----------------------------------------------------------------------------
(* VehicleService.createVehicle, with the Vehicle schema.  A stored        *)
(* vehicle of the garage carries its name, tyres and registration number   *)
(* next to its capacity and status.                                         *)

DuplicateRegistration == "Vehicle with this registration number already exists"
NameRequired      == "Vehicle validation failed: name: Vehicle name is required"
CapacityRequired  == "Vehicle validation failed: capacityKg: Vehicle capacity is required"
CapacityTooSmall  == "Vehicle validation failed: capacityKg: Capacity must be at least 1 kg"
CapacityTooLarge  == "Vehicle validation failed: capacityKg: Capacity cannot exceed 50,000 kg"
TyresRequired     == "Vehicle validation failed: tyres: Number of tyres is required"
TooFewTyres       == "Vehicle validation failed: tyres: Vehicle must have at least 2 tyres"
TooManyTyres      == "Vehicle validation failed: tyres: Vehicle cannot have more than 18 tyres"

MinCapacityKg == 1
MaxCapacityKg == 50000
MinTyres      == 2
MaxTyres      == 18

\* vehicleData: name and registrationNumber are strings (<< >> when absent),
\* capacityKg and tyres are {} when absent and {n} otherwise.
VehicleData(name, capacityKg, tyres, registrationNumber) ==
    [name |-> name, capacityKg |-> capacityKg, tyres |-> tyres,
     registrationNumber |-> registrationNumber]

\* new Vehicle(vehicleData): the setters of the schema (trim) and the default
\* of status.
NewVehicle(vehicleData) ==
    [ name       |-> trim(vehicleData.name),
      capacityKg |-> vehicleData.capacityKg,
      tyres      |-> vehicleData.tyres,
      status     |-> "active",
      registrationNumber |-> trim(vehicleData.registrationNumber) ]

\* The validators of the schema, which save() runs first.  The message names
\* the first path that fails (the inputs of the model break one path at most).
ValidateVehicle(doc) ==
    IF doc.name = NoString THEN NameRequired
    ELSE IF doc.capacityKg = {} THEN CapacityRequired
    ELSE IF \E c \in doc.capacityKg : c < MinCapacityKg THEN CapacityTooSmall
    ELSE IF \E c \in doc.capacityKg : c > MaxCapacityKg THEN CapacityTooLarge
    ELSE IF doc.tyres = {} THEN TyresRequired
    ELSE IF \E n \in doc.tyres : n < MinTyres THEN TooFewTyres
    ELSE IF \E n \in doc.tyres : n > MaxTyres THEN TooManyTyres
    ELSE OK

\* Math.floor(Math.random() * 1000) lies in 0..RandomRange-1
RandomRange == 1000

\* `FL-${Date.now()}-${Math.floor(Math.random() * 1000)}`
GeneratedRegistration(ms, suffix) ==
    <<"F", "L", "-">> \o Decimal(ms) \o <<"-">> \o Decimal(suffix)

\* vehicleSchema.pre('save'): ms is Date.now(), suffix the random draw
PreSave(doc, ms, suffix) ==
    IF doc.registrationNumber = NoString
    THEN [doc EXCEPT !.registrationNumber = GeneratedRegistration(ms, suffix)]
    ELSE doc

RegistrationNumbers(vs) == { vs[id].registrationNumber : id \in DOMAIN vs }

\* the record the collection keeps: the numbers themselves, not the options
StoredVehicle(doc) ==
    [ name       |-> doc.name,
      capacityKg |-> CHOOSE c \in doc.capacityKg : TRUE,
      tyres      |-> CHOOSE n \in doc.tyres : TRUE,
      status     |-> doc.status,
      registrationNumber |-> doc.registrationNumber ]

\* Variant: a collection without the unique index on registrationNumber.
InsertVehicleUnindexed(doc, vs) ==
    [outcome |-> OK,
     vehicles |-> ((Cardinality(DOMAIN vs) + 1) :> StoredVehicle(doc)) @@ vs]

\* The insert that save() issues, and the catch block of createVehicle: the
\* unique index on registrationNumber refuses a number that a stored vehicle
\* holds (error code 11000).  Vehicles are never removed from the
\* collection, so the next id is its size plus one.
InsertVehicle(doc, vs) ==
    IF doc.registrationNumber \in RegistrationNumbers(vs)
    THEN [outcome |-> DuplicateRegistration, vehicles |-> vs]
    ELSE [outcome |-> OK,
          vehicles |-> ((Cardinality(DOMAIN vs) + 1) :> StoredVehicle(doc)) @@ vs]

\* The whole handler when nothing interleaves.
createVehicle(vehicleData, vs, ms, suffix) ==
    LET doc == NewVehicle(vehicleData) IN
    IF ValidateVehicle(doc) # OK
    THEN [outcome |-> ValidateVehicle(doc), vehicles |-> vs]
    ELSE InsertVehicle(PreSave(doc, ms, suffix), vs)

(* The garage: vehicles are registered while other registrations are in    *)
(* flight.                                                                  *)

MsPerHalfHour == 30 * 60 * 1000

\* Date.now() in milliseconds at the instant t of the model, offset
\* milliseconds into it.  The fleet was registered one half hour before the
\* epoch of the model, at millisecond 0.
DateNow(t, offset) == (t + 1) * MsPerHalfHour + offset

\* two calls of Date.now() may or may not fall in the same millisecond
MsOffsets == {0, 1}

\* the draws of Math.random() that the model follows
RandomSuffixes == {0, RandomRange - 1}

TruckName == <<"T">>
KA1       == <<"K", "A", "1">>
PaddedKA1 == <<" ", "K", "A", "1", " ">>
MH2       == <<"M", "H", "2">>
Blank     == <<" ">>

ValidVehicle(registrationNumber) ==
    VehicleData(TruckName, {CapacityOf(1)}, {4}, registrationNumber)

\* without a registration number, or with one that trims to nothing
AutoVehicleInputs == { ValidVehicle(NoString), ValidVehicle(Blank) }

VehicleInputs ==
    AutoVehicleInputs
    \cup { ValidVehicle(r) : r \in {KA1, PaddedKA1, MH2} }
    \cup { VehicleData(NoString, {CapacityOf(1)}, {4}, KA1),
           VehicleData(TruckName, {0}, {4}, KA1),
           VehicleData(TruckName, {}, {4}, KA1),
           VehicleData(TruckName, {MaxCapacityKg + 1}, {4}, NoString),
           VehicleData(TruckName, {CapacityOf(1)}, {1}, NoString),
           VehicleData(TruckName, {CapacityOf(1)}, {}, NoString),
           VehicleData(TruckName, {CapacityOf(1)}, {MaxTyres + 1}, NoString) }

InitGarage ==
    /\ vehicles = [id \in 1..NumVehicles |->
                       [ name |-> TruckName, capacityKg |-> CapacityOf(id),
                         tyres |-> 4, status |-> "active",
                         registrationNumber |-> GeneratedRegistration(0, id) ]]
    /\ bookings = NoBookings
    /\ nextId = 1
    /\ now = 0
    /\ calls = EmptyBag
    /\ response = NoResponse
    /\ calc = NoCalc

\* a createVehicle call whose insert is on its way to the store
VehicleFrame(vehicleData, doc) ==
    [op |-> "createVehicle", pc |-> "insert", data |-> vehicleData, doc |-> doc]

\* createVehicle, lines 147-149: new Vehicle(vehicleData) and save() up to the
\* insert: the validators and the pre-save hook run, the insert is issued.
CreateVehicleValidate ==
    /\ CanStart
    /\ Cardinality(DOMAIN vehicles) + BagCardinality(calls) < NumVehicles + MaxCreated
    /\ \E vehicleData \in VehicleInputs, offset \in MsOffsets, suffix \in RandomSuffixes :
         LET doc == NewVehicle(vehicleData) IN
         IF ValidateVehicle(doc) # OK
         THEN /\ response' = Returned("createVehicle", ValidateVehicle(doc), 0)
              /\ calls' = calls
         ELSE /\ Start(VehicleFrame(vehicleData, PreSave(doc, DateNow(now, offset), suffix)))
              /\ response' = response
    /\ UNCHANGED <<vehicles, bookings, nextId, now, calc>>

\* lines 149-156: the answer of the store to the insert, and the return or
\* the catch block
CreateVehicleInsert ==
    /\ response = NoResponse
    /\ \E f \in FramesAt("createVehicle", "insert") :
         LET r == InsertVehicle(f.doc, vehicles) IN
         /\ Finish(f)
         /\ vehicles' = r.vehicles
         /\ response' = Returned("createVehicle", r.outcome,
                                 IF r.outcome = OK THEN Cardinality(DOMAIN vehicles) + 1
                                 ELSE 0)
    /\ UNCHANGED <<bookings, nextId, now, calc>>

NextGarage ==
    \/ Deliver
    \/ CreateVehicleValidate
    \/ CreateVehicleInsert
    \/ UpdateVehicleStatus({1, NumVehicles + 1}, {"maintenance", "active"})

SpecGarage == InitGarage /\ [][NextGarage]_vars

-----------------------------------------------------------------------------
(* What a failing call throws, and the status the controller answers with. *)
(* A message is the sequence of its words, so that the concatenation of a  *)
(* catch block and String.prototype.includes of a controller are computed  *)
(* on it.                                                                  *)

\* the words of the message of an error thrown inside a try block
Words(cause) ==
    CASE cause = MissingFields ->
           <<"All", "booking", "fields", "are", "required">>
      [] cause = VehicleNotFound ->
           <<"Vehicle", "not", "found">>
      [] cause = VehicleNotActive ->
           <<"Vehicle", "is", "not", "available", "for", "booking">>
      [] cause = InvalidPincode ->
           <<"Invalid", "pincode", "format.", "Pincodes", "must", "be", "6", "digits.">>
      [] cause = InvalidTimeFormat ->
           <<"Invalid", "start", "time", "format">>
      [] cause = PastStartTime ->
           <<"Start", "time", "must", "be", "in", "the", "future">>
      [] cause = SlotUnavailable ->
           <<"Vehicle", "is", "no", "longer", "available", "for", "the", "requested", "time", "slot">>
      [] cause = CustomerRequired ->
           <<"Booking", "validation", "failed:", "customerId:", "Customer", "ID", "is", "required">>
      [] cause = StartNotFuture ->
           <<"Booking", "validation", "failed:", "startTime:", "Start", "time", "must", "be", "in", "the", "future">>
      [] cause = BookingNotFound ->
           <<"Booking", "not", "found">>
      [] cause = AlreadyCompleted ->
           <<"Cannot", "cancel", "completed", "booking">>
      [] cause = AlreadyCancelled ->
           <<"Booking", "is", "already", "cancelled">>
      [] cause = TooCloseToStart ->
           <<"Cannot", "cancel", "booking", "less", "than", "2", "hours", "before", "start", "time">>
      [] cause = NotCancelled ->
           <<"Only", "cancelled", "bookings", "can", "be", "deleted">>
      [] cause = HasActiveBookings ->
           <<"Cannot", "delete", "vehicle", "with", "active", "bookings">>
      [] cause = InvalidStatus ->
           <<"Validation", "failed:", "status", "is", "not", "a", "valid", "enum", "value">>
      [] cause = MissingCriteria ->
           <<"All", "search", "criteria", "are", "required">>
      [] cause = DuplicateRegistration ->
           <<"Vehicle", "with", "this", "registration", "number", "already", "exists">>
      [] cause = NameRequired ->
           <<"Vehicle", "validation", "failed:", "name:", "Vehicle", "name", "is", "required">>
      [] cause = CapacityRequired ->
           <<"Vehicle", "validation", "failed:", "capacityKg:", "Vehicle", "capacity", "is", "required">>
      [] cause = CapacityTooSmall ->
           <<"Vehicle", "validation", "failed:", "capacityKg:", "Capacity", "must", "be", "at", "least", "1", "kg">>
      [] cause = CapacityTooLarge ->
           <<"Vehicle", "validation", "failed:", "capacityKg:", "Capacity", "cannot", "exceed", "50,000", "kg">>
      [] cause = TyresRequired ->
           <<"Vehicle", "validation", "failed:", "tyres:", "Number", "of", "tyres", "is", "required">>
      [] cause = TooFewTyres ->
           <<"Vehicle", "validation", "failed:", "tyres:", "Vehicle", "must", "have", "at", "least", "2", "tyres">>
      [] cause = TooManyTyres ->
           <<"Vehicle", "validation", "failed:", "tyres:", "Vehicle", "cannot", "have", "more", "than", "18", "tyres">>
      [] OTHER -> <<cause>>

\* The prefix that the catch block of an operation puts before the message
\* of the error it caught.  cancelBooking also catches what
\* updateBookingStatus throws, whose own prefix then follows this one.
CatchPrefix(op) ==
    CASE op = "getVehicleById"        -> <<"Error", "fetching", "vehicle:">>
      [] op = "findAvailableVehicles" -> <<"Error", "finding", "available", "vehicles:">>
      [] op = "updateVehicleStatus"   -> <<"Error", "updating", "vehicle", "status:">>
      [] op = "deleteVehicle"         -> <<"Error", "deleting", "vehicle:">>
      [] op = "createBooking"         -> <<"Error", "creating", "booking:">>
      [] op = "getBookingById"        -> <<"Error", "fetching", "booking:">>
      [] op = "updateBookingStatus"   -> <<"Error", "updating", "booking:">>
      [] op = "cancelBooking"         -> <<"Error", "cancelling", "booking:">>
      [] op = "deleteBooking"         -> <<"Error", "deleting", "booking:">>

\* The message of the error that leaves the operation.  The catch block of
\* createVehicle rethrows the error it caught, or throws the message of
\* DuplicateRegistration for the error code 11000.  The catch block of
\* createBooking has a branch for the code 11000 as well, which no error of
\* the bookings collection carries (it has no unique index).
Thrown(op, cause) ==
    IF op = "createVehicle" THEN Words(cause)
    ELSE CatchPrefix(op) \o Words(cause)

\* String.prototype.includes, for a needle that begins and ends at words
includes(message, needle) ==
    \E i \in 0..(Len(message) - Len(needle)) :
        SubSeq(message, i + 1, i + Len(needle)) = needle

\* The status code in the catch block of the controller of the operation.
StatusCode(op, message) ==
    CASE op = "createBooking" ->
           IF includes(message, <<"not", "found">>) THEN 404
           ELSE IF includes(message, <<"no", "longer", "available">>)
                   \/ includes(message, <<"conflict">>) THEN 409
           ELSE 400
      [] op = "cancelBooking" ->
           IF includes(message, <<"not", "found">>) THEN 404
           ELSE IF includes(message, <<"Cannot", "cancel">>) THEN 409
           ELSE 400
      [] op = "deleteBooking" ->
           IF includes(message, <<"not", "found">>) THEN 404
           ELSE IF includes(message, <<"Only", "cancelled">>) THEN 409
           ELSE 400
      [] op = "deleteVehicle" ->
           IF includes(message, <<"not", "found">>) THEN 404
           ELSE IF includes(message, <<"active", "bookings">>) THEN 409
           ELSE 500
      [] op \in {"getBookingById", "updateBookingStatus", "getVehicleById",
                 "updateVehicleStatus"} ->
           IF includes(message, <<"not", "found">>) THEN 404 ELSE 500
      [] op \in {"createVehicle", "findAvailableVehicles"} -> 400

-----------------------------------------------------------------------------
(* Queries on the bookings collection, called directly: one call against a *)
(* stored collection, from its arguments to its result.                    *)

Customer2 == <<"c", "2">>

\* A stored booking with the fields that the queries read; createdAt is the
\* timestamp that the schema keeps (timestamps: true).
StoredBooking(vehicleId, customerId, status, startTime, endTime, createdAt) ==
    [ vehicleId  |-> vehicleId,
      customerId |-> customerId,
      status     |-> status,
      startTime  |-> startTime,
      endTime    |-> endTime,
      estimatedRideDurationHours |-> endTime - startTime,
      createdAt  |-> createdAt ]

\* the collections of at most n documents taken from docs, under the ids 1..n
Collections(docs, n) == UNION { [1..k -> docs] : k \in 0..n }

\* rides [1, 2), [2, 4) and [3, 4) of two vehicles, in every status
OverlapStores ==
    Collections({ StoredBooking(v, Customer1, status, w[1], w[2], 0) :
                    v \in 1..2, status \in BookingStatuses,
                    w \in {<<1, 2>>, <<2, 4>>, <<3, 4>>} }, MaxStored)

\* windows [2, 3) and [1, 3); excludeBookingId null (0), stored or unknown
OverlapCalls ==
    { Call("findOverlappingBookings", <<v, w[1], w[2], x>>) :
        v \in 1..2, w \in {<<2, 3>>, <<1, 3>>}, x \in 0..(MaxStored + 1) }

(* VehicleService.getVehicleUtilization *)

\* dateRange: startDate and endDate are {} when absent and {t} otherwise
DateRange(startDate, endDate) == [startDate |-> startDate, endDate |-> endDate]

\* lines 332-342: the bookings that Booking.find(query) returns
UtilizationBookings(vehicleId, dateRange, bks) ==
    { id \in DOMAIN bks :
        /\ bks[id].vehicleId = vehicleId
        /\ \A t \in dateRange.startDate : bks[id].createdAt >= t
        /\ \A t \in dateRange.endDate : bks[id].createdAt <= t }

RECURSIVE SumOfDurations(_, _)
SumOfDurations(ids, bks) ==
    IF ids = {} THEN 0
    ELSE LET id == CHOOSE x \in ids : TRUE
         IN  bks[id].estimatedRideDurationHours + SumOfDurations(ids \ {id}, bks)

\* Variant: cancelled bookings do not count towards the hours booked.
TotalHoursBookedUncancelled(fetched, bks) ==
    SumOfDurations({ id \in fetched : bks[id].status # "cancelled" }, bks)

\* bookings.reduce((sum, b) => sum + b.estimatedRideDurationHours, 0)
TotalHoursBooked(fetched, bks) == SumOfDurations(fetched, bks)

\* bookings.filter(b => b.status === status).length
CountWithStatus(fetched, bks, status) ==
    Cardinality({ id \in fetched : bks[id].status = status })

\* the quotient num / den of two numbers
Quotient(num, den) == [num |-> num, den |-> den]

\* The whole handler.  getVehicleById fails for a vehicle that is not stored.
\* Durations are in half hours, as everywhere in the model; the average is
\* kept as a quotient.
getVehicleUtilization(vehicleId, dateRange, vs, bks) ==
    IF vehicleId \notin DOMAIN vs THEN Failed(VehicleNotFound)
    ELSE LET fetched == UtilizationBookings(vehicleId, dateRange, bks) IN
         Computed(
           [ vehicleId         |-> vehicleId,
             totalBookings     |-> Cardinality(fetched),
             confirmedBookings |-> CountWithStatus(fetched, bks, "confirmed"),
             completedBookings |-> CountWithStatus(fetched, bks, "completed"),
             cancelledBookings |-> CountWithStatus(fetched, bks, "cancelled"),
             totalHoursBooked  |-> TotalHoursBooked(fetched, bks),
             averageRideDuration |->
                 IF Cardinality(fetched) > 0
                 THEN Quotient(TotalHoursBooked(fetched, bks), Cardinality(fetched))
                 ELSE Quotient(0, 1) ])

\* rides of one or two half hours of two vehicles, in every status, created
\* at the instants 0 and 1
UtilizationStores ==
    Collections({ StoredBooking(v, Customer1, status, 1, e, created) :
                    v \in 1..2, status \in BookingStatuses,
                    e \in {2, 3}, created \in {0, 1} }, MaxStored)

UtilizationCalls ==
    { Call("getVehicleUtilization", <<v, DateRange(from, to)>>) :
        v \in {1, NumVehicles + 1}, from \in {{}, {1}}, to \in {{}, {0}, {1}} }

(* BookingService.getCustomerBookings *)

DefaultLimit  == 10
DefaultOffset == 0

\* options: limit and offset are {} when absent and {n} otherwise, status is
\* "" when absent
ListOptions(limit, offset, status) ==
    [limit |-> limit, offset |-> offset, status |-> status]

\* const { limit = 10, offset = 0, status } = options
LimitOf(options)  == IF options.limit = {} THEN DefaultLimit
                     ELSE CHOOSE n \in options.limit : TRUE
OffsetOf(options) == IF options.offset = {} THEN DefaultOffset
                     ELSE CHOOSE n \in options.offset : TRUE

\* the documents that match query = {customerId} or {customerId, status}
CustomerQuery(customerId, options, bks) ==
    { id \in DOMAIN bks :
        /\ bks[id].customerId = customerId
        /\ (options.status # "" => bks[id].status = options.status) }

\* sort({createdAt: -1}): the orders in which the store may return ids;
\* documents created at the same instant come in any order
NewestFirst(ids, bks) ==
    { order \in [1..Cardinality(ids) -> ids] :
        /\ \A i, j \in 1..Cardinality(ids) : i # j => order[i] # order[j]
        /\ \A i, j \in 1..Cardinality(ids) :
               i < j => bks[order[i]].createdAt >= bks[order[j]].createdAt }

\* skip(offset)
Skip(order, offset) ==
    IF offset >= Len(order) THEN << >> ELSE SubSeq(order, offset + 1, Len(order))

\* limit(limit): a limit of 0 is no limit
Limit(order, limit) ==
    IF limit = 0 \/ limit >= Len(order) THEN order ELSE SubSeq(order, 1, limit)

\* The whole handler, for the order in which the store returns the documents
\* that match; no call writes between its two queries.
getCustomerBookings(customerId, options, bks, order) ==
    LET limit  == LimitOf(options)
        offset == OffsetOf(options)
        total  == Cardinality(CustomerQuery(customerId, options, bks))
    IN  Computed([ bookings |-> Limit(Skip(order, offset), limit),
                   total    |-> total,
                   hasMore  |-> (offset + limit) < total ])

\* bookings of two customers, confirmed or cancelled, created at two instants
CustomerStores ==
    Collections({ StoredBooking(1, c, status, 1, 2, created) :
                    c \in {Customer1, Customer2},
                    status \in {"confirmed", "cancelled"},
                    created \in {0, 1} }, MaxStored)

CustomerCalls ==
    { Call("getCustomerBookings", <<Customer1, ListOptions(limit, offset, status)>>) :
        limit \in {{}} \cup { {n} : n \in 0..MaxStored },
        offset \in {{}} \cup { {n} : n \in 0..MaxStored },
        status \in {"", "confirmed"} }

(* BookingService.getBookingAnalytics *)

\* lines 277-284: the bookings that { $match: matchQuery } lets through
AnalyticsMatch(dateRange, bks) ==
    { id \in DOMAIN bks :
        /\ \A t \in dateRange.startDate : bks[id].createdAt >= t
        /\ \A t \in dateRange.endDate : bks[id].createdAt <= t }

\* Variant: only the rides that are not cancelled add to the hours.
AnalyticsTotalHoursUncancelled(matched, bks) ==
    SumOfDurations({ id \in matched : bks[id].status # "cancelled" }, bks)

\* totalHours: { $sum: '$estimatedRideDurationHours' }
AnalyticsTotalHours(matched, bks) == SumOfDurations(matched, bks)

\* { $sum: { $cond: [{ $eq: ['$status', status] }, 1, 0] } }
AnalyticsCount(matched, bks, status) ==
    Cardinality({ id \in matched : bks[id].status = status })

\* The whole handler: $group with _id null gives one document when a booking
\* matches and none otherwise, and analytics[0] || {...} gives the zeros then.
getBookingAnalytics(dateRange, bks) ==
    LET matched == AnalyticsMatch(dateRange, bks) IN
    IF matched = {}
    THEN Computed(
           [ totalBookings      |-> 0,
             confirmedBookings  |-> 0,
             inProgressBookings |-> 0,
             completedBookings  |-> 0,
             cancelledBookings  |-> 0,
             totalHours         |-> 0,
             averageDuration    |-> Quotient(0, 1) ])
    ELSE Computed(
           [ totalBookings      |-> Cardinality(matched),
             confirmedBookings  |-> AnalyticsCount(matched, bks, "confirmed"),
             inProgressBookings |-> AnalyticsCount(matched, bks, "in-progress"),
             completedBookings  |-> AnalyticsCount(matched, bks, "completed"),
             cancelledBookings  |-> AnalyticsCount(matched, bks, "cancelled"),
             totalHours         |-> AnalyticsTotalHours(matched, bks),
             averageDuration    |->
                 Quotient(AnalyticsTotalHours(matched, bks), Cardinality(matched)) ])

\* no date range, one bound or both
AnalyticsCalls ==
    { Call("getBookingAnalytics", <<DateRange(from, to)>>) :
        from \in {{}, {1}}, to \in {{}, {0}, {1}} }

InitQuery ==
    /\ vehicles = [id \in 1..NumVehicles |->
                       [capacityKg |-> CapacityOf(id), status |-> "active"]]
    /\ nextId = 1
    /\ now = 0
    /\ calls = EmptyBag
    /\ response = NoResponse
    /\ \/ bookings \in OverlapStores /\ calc \in OverlapCalls
       \/ bookings \in UtilizationStores /\ calc \in UtilizationCalls
       \/ bookings \in CustomerStores /\ calc \in CustomerCalls
       \/ bookings \in UtilizationStores /\ calc \in AnalyticsCalls

FindOverlappingBookings ==
    /\ calc.fn = "findOverlappingBookings" /\ ~calc.done
    /\ calc' = Result(Computed(
           findOverlappingBookings(bookings, calc.args[1], calc.args[2],
                                   calc.args[3], calc.args[4])))
    /\ UNCHANGED <<vehicles, bookings, nextId, now, calls, response>>

GetVehicleUtilization ==
    /\ calc.fn = "getVehicleUtilization" /\ ~calc.done
    /\ calc' = Result(getVehicleUtilization(calc.args[1], calc.args[2],
                                            vehicles, bookings))
    /\ UNCHANGED <<vehicles, bookings, nextId, now, calls, response>>

GetCustomerBookings ==
    /\ calc.fn = "getCustomerBookings" /\ ~calc.done
    /\ \E order \in NewestFirst(CustomerQuery(calc.args[1], calc.args[2], bookings),
                                bookings) :
         calc' = Result(getCustomerBookings(calc.args[1], calc.args[2],
                                            bookings, order))
    /\ UNCHANGED <<vehicles, bookings, nextId, now, calls, response>>

GetBookingAnalytics ==
    /\ calc.fn = "getBookingAnalytics" /\ ~calc.done
    /\ calc' = Result(getBookingAnalytics(calc.args[1], bookings))
    /\ UNCHANGED <<vehicles, bookings, nextId, now, calls, response>>

NextQuery ==
    \/ FindOverlappingBookings
    \/ GetVehicleUtilization
    \/ GetCustomerBookings
    \/ GetBookingAnalytics

SpecQuery == InitQuery /\ [][NextQuery]_vars

-----------------------------------------------------------------------------
(* Vocabulary of the properties *)

\* the service is idle: the next call can be invoked
Ready == response = NoResponse

ValidPincodes == {P110001, P110002}

\* 6-digit pincodes, a customer id that is not blank, a start time that parses
WellFormed(req) ==
    /\ req.vehicleId # 0
    /\ req.customerId \in {Customer1, PaddedCustomer1}
    /\ req.fromPincode \in ValidPincodes /\ req.toPincode \in ValidPincodes
    /\ req.startTime.kind = "iso"

\* every check of createBooking other than the overlap check passes
PassesValidation(req) ==
    /\ WellFormed(req)
    /\ req.vehicleId \in DOMAIN vehicles
    /\ vehicles[req.vehicleId].status = "active"
    /\ req.startTime.t > now

\* the ride duration of the spec, in half hours, for the routes of the model
RideHalfHours(from, to) == IF from = to THEN 1 ELSE 2

WindowStart(req) == req.startTime.t
WindowEnd(req)   == req.startTime.t + RideHalfHours(req.fromPincode, req.toPincode)

IsActive(b) == b.status = "confirmed" \/ b.status = "in-progress"

\* some active booking of vehicle v intersects [s, e)
Conflict(v, s, e) ==
    \E id \in DOMAIN bookings :
        /\ bookings[id].vehicleId = v
        /\ IsActive(bookings[id])
        /\ bookings[id].startTime < e
        /\ bookings[id].endTime > s

Attempt(req) == createBooking(req, vehicles, bookings, nextId, now)

\* the collection after is the collection before plus one document with id nextId
AddsExactlyOne(after) ==
    /\ nextId \notin DOMAIN bookings
    /\ DOMAIN after = DOMAIN bookings \cup {nextId}
    /\ \A id \in DOMAIN bookings : after[id] = bookings[id]

-----------------------------------------------------------------------------
\* C2: with calls running one at a time and every other validation passing,
\* createBooking for vehicle v and window [s, e) fails with SlotUnavailable and
\* persists nothing if and only if some confirmed or in-progress booking of v
\* has startTime < e and endTime > s; otherwise it persists exactly one new
\* booking.
C2_SlotUnavailableIffConflict ==
    \A req \in BookingRequests :
        Ready /\ PassesValidation(req) =>
            LET r == Attempt(req)
                conflict == Conflict(req.vehicleId, WindowStart(req), WindowEnd(req))
            IN  /\ conflict <=> (r.outcome = SlotUnavailable)
                /\ conflict => r.bookings = bookings
                /\ ~conflict => r.outcome = OK /\ AddsExactlyOne(r.bookings)

\* a createBooking was just rejected for its slot while one booking is stored
C2_Witness ==
    /\ response.op = "createBooking"
    /\ response.outcome = SlotUnavailable
    /\ DOMAIN bookings = {1}
    /\ IsActive(bookings[1])

-----------------------------------------------------------------------------
\* the search that goes with a booking request, for a load of capacityRequired
SearchFor(req, capacityRequired) ==
    findAvailableVehicles(
        Criteria(capacityRequired, req.fromPincode, req.toPincode, req.startTime),
        vehicles, bookings, now)

Range(seq) == { seq[i] : i \in 1..Len(seq) }

\* the loads of the model that vehicle v can carry
LoadsFor(v) == { CapacityOf(i) - 500 : i \in 1..v }

\* [s, e) and the interval of booking b have an instant in common
Intersects(s, e, b) == Max(s, b.startTime) < (IF e <= b.endTime THEN e ELSE b.endTime)

ActiveOn(v) == { id \in DOMAIN bookings : bookings[id].vehicleId = v /\ IsActive(bookings[id]) }

\* C3: overlap is half-open.  For an active booking [T, T2) of vehicle A, a
\* createBooking or a search for A over a window that intersects [T, T2) rejects
\* / excludes A; a window that starts exactly at T2 or ends exactly at T (and
\* meets no other active booking of A) is accepted and A is listed.
C3_HalfOpenOverlap ==
    \A req \in BookingRequests :
        Ready /\ PassesValidation(req) =>
            LET A == req.vehicleId
                s == WindowStart(req)
                e == WindowEnd(req)
                listed == \A cap \in LoadsFor(A) : A \in Range(SearchFor(req, cap).available)
                unlisted == \A cap \in LoadsFor(A) : A \notin Range(SearchFor(req, cap).available)
            IN  /\ (\E id \in ActiveOn(A) : Intersects(s, e, bookings[id]))
                       => Attempt(req).outcome = SlotUnavailable /\ unlisted
                /\ ( /\ \E id \in ActiveOn(A) :
                            bookings[id].endTime = s \/ bookings[id].startTime = e
                     /\ \A id \in ActiveOn(A) : ~Intersects(s, e, bookings[id]) )
                       => Attempt(req).outcome = OK /\ listed

\* booking 2 was just accepted on the vehicle of the active booking 1, starting
\* at the very instant booking 1 ends
C3_Witness ==
    /\ response.op = "createBooking" /\ response.outcome = OK /\ response.id = 2
    /\ DOMAIN bookings = {1, 2}
    /\ bookings[1].vehicleId = bookings[2].vehicleId
    /\ IsActive(bookings[1])
    /\ bookings[2].startTime = bookings[1].endTime

-----------------------------------------------------------------------------
\* what the booking persisted for req must look like, customerId aside
PersistedAsRequested(req, doc) ==
    /\ doc.status = "confirmed"
    /\ doc.estimatedRideDurationHours = RideHalfHours(req.fromPincode, req.toPincode)
    /\ doc.endTime = doc.startTime + doc.estimatedRideDurationHours
    /\ doc.endTime > doc.startTime
    /\ doc.startTime = req.startTime.t
    /\ doc.vehicleId = req.vehicleId
    /\ doc.fromPincode = req.fromPincode
    /\ doc.toPincode = req.toPincode

\* C8 as stated: every booking persisted by a successful createBooking has
\* status confirmed, estimatedRideDurationHours = estimateDuration(from, to),
\* endTime = startTime + that duration, and vehicleId, customerId and pincodes
\* equal to the request's.
C8_Original ==
    \A req \in BookingRequests :
        Ready /\ Attempt(req).outcome = OK =>
            /\ PersistedAsRequested(req, Attempt(req).bookings[nextId])
            /\ Attempt(req).bookings[nextId].customerId = req.customerId

\* the customer id without the white space around it, for the ids of the model
Stripped(customerId) == IF customerId = PaddedCustomer1 THEN Customer1 ELSE customerId

\* C8 (amended): as C8, except that the persisted customerId is the request's
\* customerId with leading and trailing white space removed.
C8_PersistedBooking ==
    \A req \in BookingRequests :
        Ready /\ Attempt(req).outcome = OK =>
            /\ PersistedAsRequested(req, Attempt(req).bookings[nextId])
            /\ Attempt(req).bookings[nextId].customerId = Stripped(req.customerId)

\* a createBooking just persisted a half-hour booking for customer c1
C8_Witness ==
    /\ response.op = "createBooking" /\ response.outcome = OK
    /\ response.id \in DOMAIN bookings
    /\ bookings[response.id].status = "confirmed"
    /\ bookings[response.id].customerId = Customer1
    /\ bookings[response.id].endTime = bookings[response.id].startTime + 1

-----------------------------------------------------------------------------
\* a search that passes the validations of findAvailableVehicles
ValidSearch(criteria) ==
    /\ criteria.capacityRequired > 0
    /\ criteria.fromPincode \in ValidPincodes /\ criteria.toPincode \in ValidPincodes
    /\ criteria.startTime.kind = "iso"
    /\ criteria.startTime.t > now

\* C5: with no concurrent writers, findAvailableVehicles returns exactly the
\* vehicles with capacityKg >= capacityRequired, status active and no confirmed
\* or in-progress booking intersecting [startTime, startTime + duration), in the
\* order of the candidate query (the order of the collection); maintenance or
\* retired vehicles and vehicles below capacity never appear.
C5_SearchReturnsExactlyTheFree ==
    \A criteria \in SearchCriteria :
        Ready /\ ValidSearch(criteria) =>
            LET r == findAvailableVehicles(criteria, vehicles, bookings, now)
                s == criteria.startTime.t
                e == s + RideHalfHours(criteria.fromPincode, criteria.toPincode)
            IN  /\ r.outcome = OK
                /\ \A v \in 1..(NumVehicles + 1) :
                       v \in Range(r.available) <=>
                           /\ v \in DOMAIN vehicles
                           /\ vehicles[v].capacityKg >= criteria.capacityRequired
                           /\ vehicles[v].status = "active"
                           /\ ~Conflict(v, s, e)
                /\ \A i, j \in 1..Len(r.available) :
                       i < j => r.available[i] < r.available[j]

\* a search just returned vehicle 2 alone, vehicle 1 being active but booked
C5_Witness ==
    /\ response.op = "findAvailableVehicles" /\ response.outcome = OK
    /\ response.available = <<2>>
    /\ vehicles[1].status = "active"
    /\ ActiveOn(1) # {}

-----------------------------------------------------------------------------
\* C6: search and create agree.  In any state, for a vehicle v, a load that v
\* can carry and a customer, v is listed by findAvailableVehicles(from, to,
\* startTime) if and only if createBooking(v, customer, from, to, startTime)
\* succeeds, and the booking then has the duration and the window of the search.
C6_SearchAndCreateAgree ==
    \A req \in BookingRequests :
        ( /\ Ready
          /\ req.vehicleId \in DOMAIN vehicles
          /\ req.customerId \in {Customer1, PaddedCustomer1} ) =>
            \A cap \in LoadsFor(req.vehicleId) :
                LET found   == SearchFor(req, cap)
                    created == Attempt(req)
                IN  /\ req.vehicleId \in Range(found.available) <=> created.outcome = OK
                    /\ created.outcome = OK =>
                         LET doc == created.bookings[nextId] IN
                         /\ doc.estimatedRideDurationHours = found.estimatedRideDurationHours
                         /\ doc.startTime = found.requestedStartTime
                         /\ doc.endTime = found.requestedEndTime

\* a search just listed vehicle 1 and left out vehicle 2, which is active and
\* large enough: vehicle 2 is booked over the window
C6_Witness ==
    /\ response.op = "findAvailableVehicles" /\ response.outcome = OK
    /\ response.available = <<1>>
    /\ vehicles[2].status = "active"
    /\ ActiveOn(2) # {}

-----------------------------------------------------------------------------
AllFieldsPresent(req) ==
    /\ req.vehicleId # 0 /\ req.customerId # NoString
    /\ req.fromPincode # NoString /\ req.toPincode # NoString
    /\ req.startTime.kind # "none"

C7_Outcome ==
    \A req \in BookingRequests :
        Ready /\ AllFieldsPresent(req) =>
            /\ req.vehicleId \notin DOMAIN vehicles =>
                   Attempt(req).outcome = VehicleNotFound
            /\ ( /\ req.vehicleId \in DOMAIN vehicles
                 /\ vehicles[req.vehicleId].status \in {"maintenance", "retired"} ) =>
                   Attempt(req).outcome = VehicleNotActive

C7_Frame ==
    ( /\ response'.op = "createBooking"
      /\ response'.outcome \in {VehicleNotFound, VehicleNotActive} ) =>
        /\ bookings' = bookings
        /\ vehicles' = vehicles
        /\ nextId' = nextId

\* C7: createBooking for a vehicleId that does not exist fails with
\* VehicleNotFound, and for a vehicle in maintenance or retired with
\* VehicleNotActive (the five fields being present); in both cases no booking
\* is persisted and no vehicle is changed.
C7_VehicleChecks == []C7_Outcome /\ [][C7_Frame]_vars

\* a createBooking was just refused on a retired vehicle
C7_Witness ==
    /\ response.op = "createBooking" /\ response.outcome = VehicleNotActive
    /\ \E v \in DOMAIN vehicles : vehicles[v].status = "retired"

-----------------------------------------------------------------------------
Cancelling(id, reason) == cancelBooking(id, reason, bookings, now)

\* C9: cancelBooking(id) fails with NotFound if the booking is absent, with
\* AlreadyCompleted if it is completed, with AlreadyCancelled if it is
\* cancelled; otherwise (confirmed or in-progress, start at least 2 hours away)
\* it sets status to cancelled and notes to 'Cancelled: <reason>' or 'Cancelled
\* by user'; every failure leaves the booking unchanged.
C9_CancelOutcomes ==
    \A id \in 1..MaxBookings, reason \in Reasons :
        Ready =>
            LET r == Cancelling(id, reason) IN
            /\ id \notin DOMAIN bookings => r.outcome = BookingNotFound
            /\ id \in DOMAIN bookings =>
                 /\ bookings[id].status = "completed" => r.outcome = AlreadyCompleted
                 /\ bookings[id].status = "cancelled" => r.outcome = AlreadyCancelled
                 /\ ( /\ IsActive(bookings[id])
                      /\ bookings[id].startTime - now >= 4 ) =>
                        /\ r.outcome = OK
                        /\ r.bookings[id].status = "cancelled"
                        /\ r.bookings[id].notes =
                             IF reason = NoString THEN <<"Cancelled by user">>
                             ELSE <<"Cancelled: ", reason>>
            /\ r.outcome # OK => r.bookings = bookings

\* a booking was just cancelled with a reason
C9_Witness ==
    /\ response.op = "cancelBooking" /\ response.outcome = OK
    /\ bookings[response.id].status = "cancelled"
    /\ bookings[response.id].notes = <<"Cancelled: ", <<"r">> >>

-----------------------------------------------------------------------------
\* C10: for a booking that is neither completed nor cancelled, cancelBooking
\* fails with TooCloseToStart exactly when startTime - now is less than 2 hours
\* (4 half hours), also when startTime is already past, and succeeds when it is
\* 2 hours or more; exactly 2 hours is accepted.
C10_TwoHourLimit ==
    \A id \in DOMAIN bookings, reason \in Reasons :
        Ready /\ bookings[id].status \notin {"completed", "cancelled"} =>
            /\ Cancelling(id, reason).outcome = TooCloseToStart
                   <=> bookings[id].startTime - now < 4
            /\ bookings[id].startTime - now >= 4 => Cancelling(id, reason).outcome = OK

\* a booking was just cancelled exactly 2 hours before its start, after the
\* clock had advanced
C10_Witness ==
    /\ response.op = "cancelBooking" /\ response.outcome = OK
    /\ now > 0
    /\ bookings[response.id].startTime - now = 4

-----------------------------------------------------------------------------
\* C1: for every vehicle, at every reachable state, the confirmed and
\* in-progress bookings of the vehicle have pairwise disjoint windows
\* [startTime, endTime), under any sequence and any interleaving of
\* createBooking, updateBookingStatus, cancelBooking, deleteBooking,
\* updateVehicleStatus and deleteVehicle.
C1_NoDoubleBooking ==
    \A a, b \in DOMAIN bookings :
        ( /\ a # b
          /\ bookings[a].vehicleId = bookings[b].vehicleId
          /\ IsActive(bookings[a]) /\ IsActive(bookings[b]) ) =>
            \/ bookings[a].endTime <= bookings[b].startTime
            \/ bookings[b].endTime <= bookings[a].startTime

-----------------------------------------------------------------------------
SavingFrames == FramesAt("createBooking", "save")

\* two distinct calls among the frames
TwoCalls(f, g) == f # g \/ CopiesIn(f, calls) >= 2

\* C4: nothing serialises the overlap check of createBooking with its save.
\* Two concurrent calls for the same vehicle and intersecting windows can both
\* have passed the check before either saves, and then both saves succeed, in
\* either order: both bookings are persisted as confirmed.
C4_BothSavesSucceed ==
    \A f, g \in SavingFrames :
        ( /\ TwoCalls(f, g)
          /\ f.req.vehicleId = g.req.vehicleId
          /\ WindowStart(f.req) < WindowEnd(g.req)
          /\ WindowStart(g.req) < WindowEnd(f.req)
          /\ SaveChecks(NewBooking(f.req), now) = OK
          /\ SaveChecks(NewBooking(g.req), now) = OK ) =>
            LET first  == Save(NewBooking(f.req), bookings, nextId, now)
                second == Save(NewBooking(g.req), first.bookings, nextId + 1, now)
            IN  /\ first.outcome = OK /\ second.outcome = OK
                /\ second.bookings[nextId] = NewBooking(f.req)
                /\ second.bookings[nextId + 1] = NewBooking(g.req)
                /\ second.bookings[nextId].status = "confirmed"
                /\ second.bookings[nextId + 1].status = "confirmed"

\* both calls have saved and neither has returned: two confirmed bookings of
\* the same vehicle with intersecting windows are stored
C4_Witness ==
    /\ CopiesOf(FramesAt("createBooking", "populate")) = 2
    /\ \E a, b \in DOMAIN bookings :
         /\ a # b
         /\ bookings[a].vehicleId = bookings[b].vehicleId
         /\ bookings[a].status = "confirmed" /\ bookings[b].status = "confirmed"
         /\ bookings[a].startTime < bookings[b].endTime
         /\ bookings[b].startTime < bookings[a].endTime

-----------------------------------------------------------------------------
Deleting(id) == deleteBooking(id, bookings)

\* C11: deleteBooking(id) fails with NotFound for an absent booking and with
\* NotCancelled for a booking that is confirmed, in-progress or completed, and
\* leaves the store unchanged; for a cancelled booking it removes exactly that
\* record and succeeds, after which getBookingById(id) fails with NotFound.
C11_DeleteOutcomes ==
    \A id \in 1..MaxBookings :
        Ready =>
            LET r == Deleting(id) IN
            /\ id \notin DOMAIN bookings => r.outcome = BookingNotFound
            /\ ( /\ id \in DOMAIN bookings
                 /\ bookings[id].status \in {"confirmed", "in-progress", "completed"} )
                   => r.outcome = NotCancelled
            /\ r.outcome # OK => r.bookings = bookings
            /\ ( id \in DOMAIN bookings /\ bookings[id].status = "cancelled" ) =>
                 /\ r.outcome = OK
                 /\ DOMAIN r.bookings = DOMAIN bookings \ {id}
                 /\ \A other \in DOMAIN r.bookings : r.bookings[other] = bookings[other]
                 /\ getBookingById(id, r.bookings) = BookingNotFound

\* booking 1 was deleted and a getBookingById(1) just failed with NotFound
C11_Witness ==
    /\ response.op = "getBookingById" /\ response.id = 1
    /\ response.outcome = BookingNotFound
    /\ nextId = 2
    /\ bookings = NoBookings

-----------------------------------------------------------------------------
\* every record that a step removes is cancelled in the store when it goes
RemovesOnlyCancelled ==
    \A id \in DOMAIN bookings :
        id \notin DOMAIN bookings' => bookings[id].status = "cancelled"

\* C12: under any interleaving of deleteBooking with updateBookingStatus and
\* cancelBooking on the same booking, a booking record is removed from the
\* store only while its stored status is cancelled: a booking that is
\* confirmed, in-progress or completed at the moment of removal is never
\* deleted.
C12_RemovedOnlyWhileCancelled == [][RemovesOnlyCancelled]_vars

-----------------------------------------------------------------------------
Retiring(v) == deleteVehicle(v, vehicles, bookings)

C13_Outcome ==
    \A v \in 1..(NumVehicles + 1) :
        Ready =>
            LET r == Retiring(v)
                blocked == \E id \in DOMAIN bookings :
                               /\ bookings[id].vehicleId = v
                               /\ bookings[id].status \in {"confirmed", "in-progress"}
            IN  /\ blocked => r.outcome = HasActiveBookings /\ r.vehicles = vehicles
                /\ ( ~blocked /\ v \in DOMAIN vehicles ) =>
                       /\ r.outcome = OK
                       /\ r.vehicles = [vehicles EXCEPT ![v].status = "retired"]
                /\ ( ~blocked /\ v \notin DOMAIN vehicles ) =>
                       r.outcome = VehicleNotFound /\ r.vehicles = vehicles
                /\ DOMAIN r.vehicles = DOMAIN vehicles

C13_NoVehicleRemoved == DOMAIN vehicles \subseteq DOMAIN vehicles'

\* C13: deleteVehicle fails with HasActiveBookings and leaves the vehicle
\* unchanged whenever some booking of the vehicle is confirmed or in-progress;
\* otherwise it sets the status of an existing vehicle to retired (NotFound for
\* an absent one); no step removes a vehicle record, so the set of vehicle ids
\* never shrinks.
C13_Retire == []C13_Outcome /\ [][C13_NoVehicleRemoved]_vars

\* a deleteVehicle was just refused for a vehicle whose only booking is
\* in progress
C13_Witness ==
    /\ response.op = "deleteVehicle" /\ response.outcome = HasActiveBookings
    /\ \E id \in DOMAIN bookings :
         /\ bookings[id].vehicleId = response.id
         /\ bookings[id].status = "in-progress"
    /\ vehicles[response.id].status # "retired"

-----------------------------------------------------------------------------
\* the bookings of vehicle v that are cancelled or completed
ReleasedOn(v) ==
    { id \in DOMAIN bookings :
        /\ bookings[id].vehicleId = v
        /\ bookings[id].status \in {"cancelled", "completed"} }

\* C14: only active bookings block.  Once the sole booking of a vehicle on a
\* window is cancelled or completed, a createBooking for an intersecting window
\* on that vehicle succeeds, the vehicle is listed again by the availability
\* search, and retiring the vehicle succeeds with status becoming retired.
C14_OnlyActiveBookingsBlock ==
    \A v \in DOMAIN vehicles :
        ( Ready /\ ActiveOn(v) = {} /\ ReleasedOn(v) # {} ) =>
            /\ Retiring(v).outcome = OK
            /\ Retiring(v).vehicles[v].status = "retired"
            /\ \A req \in BookingRequests :
                 ( /\ req.vehicleId = v
                   /\ PassesValidation(req)
                   /\ \E id \in ReleasedOn(v) :
                        Intersects(WindowStart(req), WindowEnd(req), bookings[id]) ) =>
                     /\ Attempt(req).outcome = OK
                     /\ \A cap \in LoadsFor(v) : v \in Range(SearchFor(req, cap).available)

\* the only booking, of an active vehicle, is cancelled and the vehicle was
\* just listed by a search
C14_Witness ==
    /\ response.op = "findAvailableVehicles" /\ response.outcome = OK
    /\ DOMAIN bookings = {1}
    /\ bookings[1].status = "cancelled"
    /\ vehicles[bookings[1].vehicleId].status = "active"
    /\ bookings[1].vehicleId \in Range(response.available)

-----------------------------------------------------------------------------
\* a call of updateBookingStatus without actualStartTime or actualEndTime in its
\* additionalData has just returned (the calls of the life cycle carry none)
StatusJustUpdated == response'.op = "updateBookingStatus" /\ response'.outcome = OK

KeepsActualTimes ==
    StatusJustUpdated =>
        \A id \in DOMAIN bookings \cap DOMAIN bookings' :
            /\ bookings[id].actualStartTime # {} =>
                   bookings'[id].actualStartTime = bookings[id].actualStartTime
            /\ bookings[id].actualEndTime # {} =>
                   bookings'[id].actualEndTime = bookings[id].actualEndTime

\* C15: updateBookingStatus sets actualStartTime to the current time on a
\* transition to in-progress, and actualEndTime on a transition to completed,
\* only if that field is not already set on the booking: a booking that already
\* has actualStartTime (resp. actualEndTime) keeps its original value when it
\* is moved to in-progress (resp. completed) again.
C15_ActualTimesSetOnce == [][KeepsActualTimes]_vars

-----------------------------------------------------------------------------
HasReturned(fn) == calc.fn = fn /\ calc.done

\* a string of exactly 6 ASCII digits
SixDigitString(value) ==
    /\ value.type = "string"
    /\ Len(value.text) = 6
    /\ \A i \in 1..6 : value.text[i] \in Digits

\* C16: isValidPincode(code) returns true if and only if code is a string of
\* exactly 6 ASCII digits: it rejects 5-digit, 7-digit, alphanumeric, dashed,
\* empty and null inputs and also a value of numeric type such as the number
\* 110001, and accepts '000000' and '999999'.
C16_SixDigitStringsOnly ==
    HasReturned("isValidPincode") =>
        ( calc.result.value <=> SixDigitString(calc.args[1]) )

-----------------------------------------------------------------------------
\* the integer that a string of digits denotes
RECURSIVE IntOf(_)
IntOf(text) ==
    IF text = << >> THEN 0
    ELSE 10 * IntOf(SubSeq(text, 1, Len(text) - 1))
           + (CHOOSE d \in 0..9 : DigitChar(d) = text[Len(text)])

\* |int(q) - int(p)| mod 24
HoursApart(p, q) ==
    LET d == IntOf(q.text) - IntOf(p.text) IN (IF d < 0 THEN 0 - d ELSE d) % 24

NotANumber(value) == value.type # "number"

-----------------------------------------------------------------------------
-----------------------------------------------------------------------------
\* the cost that getRouteInfo returns for the route of the call and capacity
CostFor(capacity) == getRouteInfo(calc.args[1], calc.args[2], capacity).value.estimatedCost

\* c = round(n / 1000), halves rounding up
IsRoundedThousandth(c, n) == 2000 * c <= 2 * n + 1000 /\ 2 * n + 1000 < 2000 * (c + 1)

\* C19: estimateRoute(from, to, capacityKg) returns cost = round(500 +
\* distanceKm * 10 * max(1, capacityKg / 1000)): the cost is the same for every
\* capacity <= 1000 kg (and equals the default-capacity cost), is
\* non-decreasing in capacity, and is strictly larger for capacity 2000 than
\* for capacity 1000 on the same route.
C19_CostFormula ==
    ( HasReturned("getRouteInfo") /\ calc.result.outcome = OK ) =>
        LET info       == calc.result.value
            capacityKg == IF calc.args[3] = {} THEN 1000
                          ELSE CHOOSE c \in calc.args[3] : TRUE
            multiplier == IF capacityKg <= 1000 THEN 1000 ELSE capacityKg
        IN  /\ IsRoundedThousandth(info.estimatedCost,
                   500 * 1000 + info.estimatedDistanceKm * 10 * multiplier)
            /\ capacityKg <= 1000 => info.estimatedCost = CostFor({})
            /\ \A a, b \in UNION Capacities :
                   a <= b =>
                       /\ CostFor({a}) <= CostFor({b})
                       /\ b <= 1000 => CostFor({a}) = CostFor({b})
            /\ CostFor({2000}) > CostFor({1000})

\* getRouteInfo('110001', '110005', 2000) has returned: 4 hours, 200 km, a
\* cost of 500 + 200 * 10 * 2 = 4500
C19_Witness ==
    /\ HasReturned("getRouteInfo")
    /\ calc.args = <<Str(P110001), Str(P110005), {2000}>>
    /\ calc.result.outcome = OK
    /\ calc.result.value.estimatedDistanceKm = 200
    /\ calc.result.value.estimatedCost = 4500

-----------------------------------------------------------------------------
\* C20: estimateEndTime(start, durationHours) fails with InvalidTimeFormat
\* whenever start is not a parseable timestamp, including a null start, fails
\* with InvalidDuration whenever durationHours is 0, negative or null, and
\* otherwise returns exactly start + durationHours * 3,600,000 ms (start plus
\* the duration in half hours).
C20_EndTimeContract ==
    HasReturned("calculateEndTime") =>
        LET start    == calc.args[1]
            duration == calc.args[2]
            r        == calc.result
        IN  IF start.kind # "iso" THEN r.outcome = InvalidTimeFormat
            ELSE IF duration.kind = "null" \/ duration.n <= 0
            THEN r.outcome = InvalidDuration
            ELSE r.outcome = OK /\ r.value = start.t + duration.n


-----------------------------------------------------------------------------
(* Registration of vehicles *)

UniqueRegistrations ==
    \A v, w \in DOMAIN vehicles :
        v # w => vehicles[v].registrationNumber # vehicles[w].registrationNumber

\* this step is the answer of the store to the insert of the call f
Registering(f) ==
    /\ f \in FramesAt("createVehicle", "insert")
    /\ calls = calls' (+) SetToBag({f})
    /\ response'.op = "createVehicle"

\* the caller passed a registration number that does not trim to nothing
ExplicitRegistration(f) == trim(f.data.registrationNumber) # NoString

DuplicateRefused ==
    \A f \in BagToSet(calls) :
        ( /\ Registering(f)
          /\ ExplicitRegistration(f)
          /\ f.doc.registrationNumber \in RegistrationNumbers(vehicles) )
        => /\ response'.outcome = DuplicateRegistration
           /\ vehicles' = vehicles

\* C21: in every reachable state no two vehicles share a registrationNumber,
\* and a createVehicle whose explicit registrationNumber is held by a stored
\* vehicle answers DuplicateRegistration and adds no vehicle, also when
\* another createVehicle with the same number is in flight.
C21_UniqueRegistrationNumbers ==
    []UniqueRegistrations /\ [][DuplicateRefused]_vars

\* the second of two registrations of KA1 has been refused
C21_Witness ==
    /\ response.op = "createVehicle"
    /\ response.outcome = DuplicateRegistration
    /\ Cardinality(DOMAIN vehicles) = NumVehicles + 1
    /\ KA1 \in RegistrationNumbers(vehicles)

\* C22: a createVehicle with valid name, capacity and tyres and no
\* registrationNumber of its own always succeeds, and the vehicle it adds is
\* active and carries a non-empty generated registrationNumber.
C22_GeneratedNumberNeverCollides ==
    [][ \A f \in BagToSet(calls) :
          (Registering(f) /\ ~ExplicitRegistration(f))
          => /\ response'.outcome = OK
             /\ DOMAIN vehicles' = DOMAIN vehicles \cup {response'.id}
             /\ response'.id \notin DOMAIN vehicles
             /\ vehicles'[response'.id].status = "active"
             /\ vehicles'[response'.id].registrationNumber # NoString ]_vars

-----------------------------------------------------------------------------
(* Errors at the boundary *)

\* the last call failed
HasFailed == response.op # "none" /\ response.outcome # OK

ConflictKind(op, outcome) ==
    \/ op = "createBooking" /\ outcome = SlotUnavailable
    \/ op = "createVehicle" /\ outcome = DuplicateRegistration
    \/ op = "deleteVehicle" /\ outcome = HasActiveBookings
    \/ op = "cancelBooking" /\ outcome = TooCloseToStart
    \/ op = "deleteBooking" /\ outcome = NotCancelled

NotFoundKind(outcome) == outcome \in {VehicleNotFound, BookingNotFound}

\* C24: each conflict-type failure (SlotUnavailable of createBooking,
\* DuplicateRegistration of createVehicle, HasActiveBookings of deleteVehicle,
\* TooCloseToStart of cancelBooking, NotCancelled of deleteBooking) is
\* answered with status 409, and a NotFound failure with status 404.
C24_ConflictsAnswer409 ==
    HasFailed =>
        LET status == StatusCode(response.op, Thrown(response.op, response.outcome))
        IN  /\ ConflictKind(response.op, response.outcome) => status = 409
            /\ NotFoundKind(response.outcome) => status = 404

\* C30: the message of every failure of an operation of the services starts
\* with the stage prefix of that operation ('Error creating booking: ', ...)
\* and goes on with the cause, duplicate-key failures included.
C30_StagePrefixThenCause ==
    HasFailed =>
        LET message == Thrown(response.op, response.outcome)
            cause   == Words(response.outcome)
        IN  /\ Len(message) > Len(cause)
            /\ message = CatchPrefix(response.op) \o cause

-----------------------------------------------------------------------------
(* Failures and the store *)

\* this step ends a call in a failure
Failing == response = NoResponse /\ response'.op # "none" /\ response'.outcome # OK

\* this step ends the call in flight f
Ending(f) == calls = calls' (+) SetToBag({f}) /\ response'.op = f.op

\* the call in flight f has saved a booking that is still in the collection
HasSaved(f) == f.op = "createBooking" /\ f.id \in DOMAIN bookings

\* C23: a call of createBooking, cancelBooking, updateBookingStatus,
\* deleteBooking, updateVehicleStatus or deleteVehicle that ends in a failure,
\* a failure of the store at one of its awaits included, has written
\* nothing: its last step leaves vehicles and bookings as they are, and no
\* booking that the call saved before is in the collection.
C23_FailureWritesNothing ==
    [][ Failing =>
          /\ vehicles' = vehicles
          /\ bookings' = bookings
          /\ \A f \in BagToSet(calls) : Ending(f) => ~HasSaved(f) ]_vars

-----------------------------------------------------------------------------
(* The order of the checks of createBooking *)

\* requests with any combination of faults, at start times before, at and
\* after the clock and over the rides of RaceRequests
FaultyRequests ==
    { Request(v, c, from, to, st) :
        v \in 0..(NumVehicles + 1), c \in {Customer1, NoString},
        from \in {P110001, P11001, NoString}, to \in {P110001, P110002},
        st \in { IsoDate(t) : t \in {0, 1, 2 * MinCancelHours, 2 * MinCancelHours + 1} }
               \cup {GarbageDate, NoDate} }

MissingField(req) ==
    \/ req.vehicleId = 0 \/ req.customerId = NoString
    \/ req.fromPincode = NoString \/ req.toPincode = NoString
    \/ req.startTime.kind = "none"

\* the error of the first check that fails, in the order missing fields,
\* vehicle existence, vehicle active, pincodes, start time valid, start time
\* in the future, overlap
FirstFailing(req) ==
    IF MissingField(req) THEN MissingFields
    ELSE IF req.vehicleId \notin DOMAIN vehicles THEN VehicleNotFound
    ELSE IF vehicles[req.vehicleId].status # "active" THEN VehicleNotActive
    ELSE IF req.fromPincode \notin ValidPincodes \/ req.toPincode \notin ValidPincodes
    THEN InvalidPincode
    ELSE IF req.startTime.kind # "iso" THEN InvalidTimeFormat
    ELSE IF req.startTime.t <= now THEN PastStartTime
    ELSE IF Conflict(req.vehicleId, WindowStart(req), WindowEnd(req))
    THEN SlotUnavailable
    ELSE OK

ChecksInOrder ==
    \A req \in FaultyRequests :
        Ready => /\ Attempt(req).outcome = FirstFailing(req)
                 /\ Attempt(req).outcome # OK => Attempt(req).bookings = bookings

\* this step writes the booking id
Writes(id) == id \notin DOMAIN bookings /\ id \in DOMAIN bookings'

\* in this step the call f has moved on to its save
MovesToSave(f) ==
    /\ f.op = "createBooking" /\ f.pc = "save"
    /\ CopiesIn(f, calls') > CopiesIn(f, calls)

WrittenAfterRecheck ==
    /\ \A id \in DOMAIN bookings' :
         Writes(id) =>
           \E f \in FramesAt("createBooking", "save") :
              /\ calls' = (calls (-) SetToBag({f}))
                            (+) SetToBag({[f EXCEPT !.pc = "populate", !.id = id]})
              /\ bookings'[id] = NewBooking(f.req)
    /\ \A f \in BagToSet(calls') :
         MovesToSave(f) =>
           /\ [f EXCEPT !.pc = "overlap"] \in BagToSet(calls)
           /\ CreateOverlapping(f.req, bookings) = {}

\* C25: createBooking reports the error of the first check that fails in the
\* order missing fields, vehicle existence, vehicle active, pincode validity,
\* start time valid and in the future, overlap re-check (an invalid pincode
\* on a vehicle that does not exist reports VehicleNotFound); and a booking
\* is written only by a call whose own overlap re-check has returned empty.
C25_ChecksInOrderThenWrite == []ChecksInOrder /\ [][WrittenAfterRecheck]_vars

\* a call has written its booking after its re-check and waits for populate,
\* while the vehicle has gone to maintenance: the next createBooking for it,
\* whatever else is wrong with it, reports VehicleNotActive
C25_Witness ==
    /\ Ready
    /\ \E f \in FramesAt("createBooking", "populate") : f.id \in DOMAIN bookings
    /\ vehicles[1].status = "maintenance"
    /\ Attempt(Request(1, Customer1, P11001, P110002, GarbageDate)).outcome
         = VehicleNotActive

-----------------------------------------------------------------------------
(* The validations of the search *)

\* searches with any combination of faults, for loads that some, all or none
\* of the vehicles can carry, before, at and after the clock
FaultyCriteria ==
    { Criteria(cap, from, to, st) :
        cap \in {0, CapacityOf(1) - 500, CapacityOf(NumVehicles + 1) - 500},
        from \in {P110001, P11001, NoString},
        to \in {P110002, P11001, NoString},
        st \in { IsoDate(t) : t \in (0 - 1)..1 } \cup {GarbageDate, NoDate} }

\* one of the four criteria is absent (a capacity of 0 stands for none)
CriterionAbsent(criteria) ==
    \/ criteria.capacityRequired = 0
    \/ criteria.fromPincode = NoString \/ criteria.toPincode = NoString
    \/ criteria.startTime.kind = "none"

\* some vehicle passes the capacity and status filter
SomeCandidate(criteria) ==
    \E v \in DOMAIN vehicles :
        /\ vehicles[v].capacityKg >= criteria.capacityRequired
        /\ vehicles[v].status = "active"

SearchValidated ==
    \A criteria \in FaultyCriteria :
        Ready =>
          LET r == findAvailableVehicles(criteria, vehicles, bookings, now)
              badPincode == \/ criteria.fromPincode \notin ValidPincodes
                            \/ criteria.toPincode \notin ValidPincodes
          IN  /\ CriterionAbsent(criteria) => r.outcome = MissingCriteria
              /\ ~CriterionAbsent(criteria) /\ badPincode => r.outcome = InvalidPincode
              /\ ( /\ ~CriterionAbsent(criteria) /\ ~badPincode
                   /\ criteria.startTime.kind = "iso"
                   /\ criteria.startTime.t <= now ) => r.outcome = PastStartTime
              /\ ValidSearch(criteria) /\ ~SomeCandidate(criteria) =>
                   /\ r.outcome = OK
                   /\ r.available = << >>
                   /\ OverlapQueries(criteria, vehicles, now) = 0
              /\ ValidSearch(criteria) /\ SomeCandidate(criteria) =>
                   OverlapQueries(criteria, vehicles, now) > 0

SearchWritesNothing ==
    response'.op = "findAvailableVehicles" /\ response.op = "none"
        => vehicles' = vehicles /\ bookings' = bookings

\* C26: findAvailableVehicles fails with MissingCriteria when one of
\* capacityRequired, fromPincode, toPincode, startTime is absent, with
\* InvalidPincode when a pincode is invalid, with PastStartTime when startTime
\* is not strictly after the clock (startTime equal to now included); when no
\* vehicle passes the capacity and status filter it returns the empty list
\* and issues no overlap query; it changes no vehicle and no booking.
C26_SearchValidatesAndOnlyReads == []SearchValidated /\ [][SearchWritesNothing]_vars

\* a search just returned the empty list while no vehicle is active and a
\* booking is stored
C26_Witness ==
    /\ response.op = "findAvailableVehicles"
    /\ response.outcome = OK
    /\ response.available = << >>
    /\ \A v \in DOMAIN vehicles : vehicles[v].status # "active"
    /\ bookings # NoBookings

-----------------------------------------------------------------------------
(* Queries *)

\* C27: findOverlappingBookings(vehicleId, start, end, excludeBookingId)
\* returns exactly the bookings of the vehicle that are confirmed or
\* in-progress and whose interval has startTime < end and endTime > start;
\* cancelled and completed bookings and bookings of other vehicles are never
\* returned, nor is the booking excludeBookingId, even if it overlaps.
C27_OverlapQuery ==
    HasReturned("findOverlappingBookings") =>
        LET vehicleId == calc.args[1]
            start     == calc.args[2]
            end       == calc.args[3]
            excluded  == calc.args[4]
            found     == calc.result.value
        IN  /\ found \subseteq DOMAIN bookings
            /\ \A id \in DOMAIN bookings :
                 LET b == bookings[id] IN
                 /\ id \in found <=>
                      /\ b.vehicleId = vehicleId
                      /\ IsActive(b)
                      /\ Intersects(start, end, b)
                      /\ id # excluded
                 /\ b.status \in {"cancelled", "completed"} => id \notin found
                 /\ b.vehicleId # vehicleId => id \notin found
                 /\ id = excluded => id \notin found

\* the query for [1, 3) on vehicle 1 without booking 1 has returned booking 2
\* alone, though booking 1 is an active booking of vehicle 1 over [1, 2)
C27_Witness ==
    /\ HasReturned("findOverlappingBookings")
    /\ calc.args = <<1, 1, 3, 1>>
    /\ DOMAIN bookings = {1, 2}
    /\ bookings[1] = StoredBooking(1, Customer1, "confirmed", 1, 2, 0)
    /\ calc.result.value = {2}

\* the bookings of vehicle v created within the date range
CreatedWithin(v, dateRange) ==
    { id \in DOMAIN bookings :
        /\ bookings[id].vehicleId = v
        /\ \A t \in dateRange.startDate : t <= bookings[id].createdAt
        /\ \A t \in dateRange.endDate : bookings[id].createdAt <= t }

\* the half hours of the bookings ids that are in one of the statuses
HalfHoursIn(ids, statuses) ==
    SumOfDurations({ id \in ids : bookings[id].status \in statuses }, bookings)

\* C28: utilization(vehicleId) returns, over the fetched bookings of the
\* vehicle, totalBookings equal to their number, the numbers of confirmed,
\* completed and cancelled ones, totalHoursBooked equal to the sum of
\* estimatedRideDurationHours over all of them whatever their status
\* (cancelled ones included), and averageRideDuration equal to that sum
\* divided by totalBookings, or 0 when there is no booking.
C28_Utilization ==
    HasReturned("getVehicleUtilization") /\ calc.result.outcome = OK =>
        LET fetched == CreatedWithin(calc.args[1], calc.args[2])
            stats   == calc.result.value
            average == stats.averageRideDuration
            in(status) == { id \in fetched : bookings[id].status = status }
        IN  /\ stats.totalBookings = Cardinality(fetched)
            /\ stats.confirmedBookings = Cardinality(in("confirmed"))
            /\ stats.completedBookings = Cardinality(in("completed"))
            /\ stats.cancelledBookings = Cardinality(in("cancelled"))
            /\ stats.totalHoursBooked
                 = HalfHoursIn(fetched, {"cancelled"})
                   + HalfHoursIn(fetched, BookingStatuses \ {"cancelled"})
            /\ average.den > 0
            /\ IF fetched = {} THEN average.num = 0
               ELSE average.num * stats.totalBookings
                      = stats.totalHoursBooked * average.den

\* the statistics of vehicle 1 have been returned over a cancelled ride of one
\* half hour and a confirmed ride of two: three half hours booked, an average
\* of three halves
C28_Witness ==
    /\ HasReturned("getVehicleUtilization")
    /\ calc.args = <<1, DateRange({}, {})>>
    /\ DOMAIN bookings = {1, 2}
    /\ bookings[1] = StoredBooking(1, Customer1, "cancelled", 1, 2, 0)
    /\ bookings[2] = StoredBooking(1, Customer1, "confirmed", 1, 3, 1)
    /\ calc.result.value.totalHoursBooked = 3
    /\ calc.result.value.cancelledBookings = 1
    /\ calc.result.value.averageRideDuration = Quotient(3, 2)

\* the bookings of the customer that match the status filter of the options
Matching(customerId, options) ==
    { id \in DOMAIN bookings :
        /\ bookings[id].customerId = customerId
        /\ (options.status = "" \/ bookings[id].status = options.status) }

\* page holds the bookings from offset on, limit at most, of ids in some
\* newest-created-first order
IsPage(page, ids, offset, limit) ==
    /\ Len(page) <= limit
    /\ \A i, j \in 1..Len(page) :
           i < j => /\ page[i] # page[j]
                    /\ bookings[page[i]].createdAt >= bookings[page[j]].createdAt
    /\ Range(page) \subseteq ids
    /\ Len(page) = Max(0, (IF offset + limit < Cardinality(ids)
                           THEN offset + limit ELSE Cardinality(ids)) - offset)
    /\ \E before \in SUBSET (ids \ Range(page)) :
           /\ Cardinality(before) = (IF offset < Cardinality(ids) THEN offset
                                     ELSE Cardinality(ids))
           /\ \A a \in before, p \in Range(page) :
                  bookings[a].createdAt >= bookings[p].createdAt
           /\ \A p \in Range(page), z \in (ids \ Range(page)) \ before :
                  bookings[p].createdAt >= bookings[z].createdAt

\* C29: listCustomerBookings(customerId, {limit, offset, status}) returns
\* total equal to the number of the customer's bookings that match the status
\* filter, a page of at most limit bookings starting at offset in
\* newest-created-first order, and hasMore = (offset + limit < total); limit
\* defaults to 10 and offset to 0.
C29_CustomerPage ==
    HasReturned("getCustomerBookings") =>
        LET options == calc.args[2]
            limit   == IF options.limit = {} THEN 10
                       ELSE CHOOSE n \in options.limit : TRUE
            offset  == IF options.offset = {} THEN 0
                       ELSE CHOOSE n \in options.offset : TRUE
            ids     == Matching(calc.args[1], options)
            r       == calc.result.value
        IN  /\ r.total = Cardinality(ids)
            /\ IsPage(r.bookings, ids, offset, limit)
            /\ r.hasMore = (offset + limit < r.total)

\* the same for the calls whose limit is not 0
CustomerPageOfPositiveLimit ==
    HasReturned("getCustomerBookings") /\ 0 \notin calc.args[2].limit
        => C29_CustomerPage

\* the bookings created within the date range, of any vehicle
MatchedBy(dateRange) ==
    { id \in DOMAIN bookings :
        /\ \A t \in dateRange.startDate : t <= bookings[id].createdAt
        /\ \A t \in dateRange.endDate : bookings[id].createdAt <= t }

\* C31: analytics() over the matched bookings returns totalBookings equal to
\* their number, one count per status, totalHours equal to the sum of
\* estimatedRideDurationHours over all matched bookings whatever their
\* status, and zeros everywhere when no booking matches; totalBookings is
\* always the sum of the four counts.
C31_Analytics ==
    HasReturned("getBookingAnalytics") =>
        LET matched == MatchedBy(calc.args[1])
            stats   == calc.result.value
            in(status) == { id \in matched : bookings[id].status = status }
        IN  /\ calc.result.outcome = OK
            /\ stats.totalBookings = Cardinality(matched)
            /\ stats.confirmedBookings = Cardinality(in("confirmed"))
            /\ stats.inProgressBookings = Cardinality(in("in-progress"))
            /\ stats.completedBookings = Cardinality(in("completed"))
            /\ stats.cancelledBookings = Cardinality(in("cancelled"))
            /\ stats.totalHours
                 = HalfHoursIn(matched, {"cancelled"})
                   + HalfHoursIn(matched, BookingStatuses \ {"cancelled"})
            /\ matched = {} =>
                 /\ stats.totalBookings = 0
                 /\ stats.confirmedBookings = 0
                 /\ stats.inProgressBookings = 0
                 /\ stats.completedBookings = 0
                 /\ stats.cancelledBookings = 0
                 /\ stats.totalHours = 0
                 /\ stats.averageDuration.num = 0
            /\ stats.totalBookings
                 = stats.confirmedBookings + stats.inProgressBookings
                   + stats.completedBookings + stats.cancelledBookings

\* the analytics of the bookings created up to instant 0 have been returned
\* over a cancelled ride of two half hours, the in-progress ride created at
\* instant 1 being left out
C31_Witness ==
    /\ HasReturned("getBookingAnalytics")
    /\ calc.args = <<DateRange({}, {0})>>
    /\ DOMAIN bookings = {1, 2}
    /\ bookings[1] = StoredBooking(1, Customer1, "cancelled", 1, 3, 0)
    /\ bookings[2] = StoredBooking(2, Customer1, "in-progress", 1, 2, 1)
    /\ calc.result.value.totalBookings = 1
    /\ calc.result.value.cancelledBookings = 1
    /\ calc.result.value.totalHours = 2

-----------------------------------------------------------------------------
(* Reactivation *)

\* the active bookings of every vehicle have pairwise disjoint windows
ActiveDisjoint ==
    \A a, b \in DOMAIN bookings :
        ( /\ a # b
          /\ bookings[a].vehicleId = bookings[b].vehicleId
          /\ IsActive(bookings[a]) /\ IsActive(bookings[b]) ) =>
            ~Intersects(bookings[a].startTime, bookings[a].endTime, bookings[b])

\* this step is an updateBookingStatus that moves a cancelled or completed
\* booking back to confirmed or in-progress
Reactivates ==
    /\ response'.op = "updateBookingStatus" /\ response'.outcome = OK
    /\ response'.id \in DOMAIN bookings
    /\ bookings[response'.id].status \in {"cancelled", "completed"}
    /\ IsActive(bookings'[response'.id])

\* C32: with calls running one at a time, moving a cancelled or completed
\* booking back to confirmed or in-progress through updateBookingStatus
\* preserves the disjointness of the active bookings: the vehicle never ends
\* up with two active bookings whose windows intersect.
C32_ReactivationKeepsDisjoint ==
    [][Reactivates /\ ActiveDisjoint => ActiveDisjoint']_vars

-----------------------------------------------------------------------------
(* Retired vehicles *)

\* C33: in every reachable state a vehicle whose status is retired has no
\* booking with status confirmed or in-progress, under any sequence of
\* deleteVehicle, updateVehicleStatus, createBooking and updateBookingStatus.
C33_RetiredHasNoActiveBooking ==
    \A v \in DOMAIN vehicles :
        vehicles[v].status = "retired" => ActiveOn(v) = {}

-----------------------------------------------------------------------------
(* cancelBooking and its write *)

\* this step is the write of a cancelBooking call and it changes a booking
CancelWrites ==
    /\ response'.op = "cancelBooking" /\ response'.outcome = OK
    /\ response'.id \in DOMAIN bookings
    /\ bookings'[response'.id] # bookings[response'.id]

\* C34: under any interleaving of cancelBooking with updateBookingStatus on
\* the same booking, cancelBooking never changes a booking whose stored status
\* is completed or cancelled at the moment of its write.
C34_CancelNeverChangesFinished ==
    [][CancelWrites =>
         bookings[response'.id].status \notin {"completed", "cancelled"}]_vars

-----------------------------------------------------------------------------
(* The vehicle at the moment of the save *)

\* C35: a booking is persisted by createBooking only for a vehicle whose
\* status is active at the moment of the save, under any interleaving with
\* updateVehicleStatus or deleteVehicle.
C35_SavedOnActiveVehicle ==
    [][\A id \in DOMAIN bookings' :
          Writes(id) => vehicles[bookings'[id].vehicleId].status = "active"]_vars

-----------------------------------------------------------------------------
(* Referential integrity *)

\* every stored booking refers to a stored vehicle
BookingsReferToVehicles ==
    \A id \in DOMAIN bookings : bookings[id].vehicleId \in DOMAIN vehicles

\* no step removes the vehicle of a stored booking
ReferencedVehiclesKept ==
    \A id \in DOMAIN bookings : bookings[id].vehicleId \in DOMAIN vehicles'

\* C36: in every reachable state every booking created through createBooking
\* references a vehicleId that exists in the vehicle store: createBooking
\* checks existence and no operation removes a vehicle record.
C36_ReferentialIntegrity ==
    []BookingsReferToVehicles /\ [][ReferencedVehiclesKept]_vars

\* deleteVehicle has just succeeded on the vehicle of a stored booking: the
\* vehicle is retired and still in the store
C36_Witness ==
    /\ response.op = "deleteVehicle" /\ response.outcome = OK
    /\ \E id \in DOMAIN bookings :
         /\ bookings[id].vehicleId = response.id
         /\ response.id \in DOMAIN vehicles
         /\ vehicles[response.id].status = "retired"

-----------------------------------------------------------------------------
(* What a status change leaves alone *)

\* the fields of a booking that are set at its creation
CreationFields(b) ==
    <<b.vehicleId, b.customerId, b.fromPincode, b.toPincode,
      b.startTime, b.endTime, b.estimatedRideDurationHours>>

\* the window of every stored booking is as long as its estimated duration
\* (both in half hours)
WindowIsDuration ==
    \A id \in DOMAIN bookings :
        bookings[id].endTime
          = bookings[id].startTime + bookings[id].estimatedRideDurationHours

\* no step changes a creation field of a booking that stays stored
CreationFieldsKept ==
    \A id \in DOMAIN bookings \cap DOMAIN bookings' :
        CreationFields(bookings'[id]) = CreationFields(bookings[id])

\* a step of updateBookingStatus or cancelBooking changes at most status,
\* notes, actualStartTime and actualEndTime of its target, no other booking
\* and no vehicle
StatusCallFrame ==
    response'.op \in {"updateBookingStatus", "cancelBooking"} =>
        /\ vehicles' = vehicles
        /\ DOMAIN bookings' = DOMAIN bookings
        /\ \A id \in DOMAIN bookings :
             IF id # response'.id THEN bookings'[id] = bookings[id]
             ELSE bookings'[id] =
                    [bookings[id] EXCEPT
                       !.status = bookings'[id].status,
                       !.notes = bookings'[id].notes,
                       !.actualStartTime = bookings'[id].actualStartTime,
                       !.actualEndTime = bookings'[id].actualEndTime]

-----------------------------------------------------------------------------
(* Transitions of the status *)

\* the call updateBookingStatus(id, status) with no additional data, now
Updating(id, status) == updateBookingStatus(id, status, NoExtra, bookings, now)

\* C38: updateBookingStatus enforces no transition rule.  For any stored
\* booking and any target status among confirmed, in-progress, completed and
\* cancelled it succeeds whatever the current status (completed and cancelled
\* are not terminal, and it cancels a booking less than 2 hours before its
\* start, which cancelBooking refuses); a target status outside the four
\* values is rejected and leaves the booking unchanged.
C38_NoTransitionRule ==
    \A id \in DOMAIN bookings, status \in StatusInputs :
        Ready =>
            IF status \in {"confirmed", "in-progress", "completed", "cancelled"}
            THEN /\ Updating(id, status).outcome = OK
                 /\ Updating(id, status).bookings[id].status = status
            ELSE /\ Updating(id, status).outcome # OK
                 /\ Updating(id, status).bookings = bookings

\* updateBookingStatus has just confirmed again a booking that had been
\* completed (it has an actual end time), less than 2 hours before its start
C38_Witness ==
    /\ response.op = "updateBookingStatus" /\ response.outcome = OK
    /\ response.id \in DOMAIN bookings
    /\ bookings[response.id].status = "confirmed"
    /\ bookings[response.id].actualEndTime # {}
    /\ bookings[response.id].notes = << >>
    /\ bookings[response.id].startTime - now < 2 * MinCancelHours

-----------------------------------------------------------------------------
(* The status of a vehicle and its bookings *)

\* updateVehicleStatus of a stored vehicle with one of the three statuses
\* succeeds whatever the bookings and sets that status alone
StatusSetFreely ==
    \A v \in DOMAIN vehicles, status \in VehicleStatuses :
        Ready =>
            /\ updateVehicleStatus(v, status, vehicles).outcome = OK
            /\ updateVehicleStatus(v, status, vehicles).vehicles
                 = [vehicles EXCEPT ![v].status = status]

\* a vehicle in maintenance is refused by createBooking and left out by the
\* search; an active one is booked exactly on the windows that its active
\* bookings leave free
MaintenanceBlocks ==
    \A req \in BookingRequests :
        ( /\ Ready
          /\ WellFormed(req)
          /\ req.vehicleId \in DOMAIN vehicles
          /\ req.startTime.t > now ) =>
            LET v == req.vehicleId IN
            /\ vehicles[v].status = "maintenance" =>
                 /\ Attempt(req).outcome = VehicleNotActive
                 /\ \A cap \in LoadsFor(v) : v \notin Range(SearchFor(req, cap).available)
            /\ vehicles[v].status = "active" =>
                 IF Conflict(v, WindowStart(req), WindowEnd(req))
                 THEN Attempt(req).outcome = SlotUnavailable
                 ELSE Attempt(req).outcome = OK

VehicleStatusRules == StatusSetFreely /\ MaintenanceBlocks

\* a step of updateVehicleStatus changes at most the status of its target
\* and no booking
VehicleStatusFrame ==
    response'.op = "updateVehicleStatus" =>
        /\ bookings' = bookings
        /\ DOMAIN vehicles' = DOMAIN vehicles
        /\ \A v \in DOMAIN vehicles :
             /\ vehicles'[v] = [vehicles[v] EXCEPT !.status = vehicles'[v].status]
             /\ v # response'.id => vehicles'[v] = vehicles[v]

=============================================================================
